---- MODULE Spec2Model ----
(***************************************************************************)
(* A model of pddl_utils: the typed entity / predicate / atom / formula    *)
(* data model of structs.py, formula evaluation and grounding, operator    *)
(* grounding, the successor enumerator and the state transition function.  *)
(*                                                                         *)
(* Python values are modelled as records.  A call that raises is modelled  *)
(* by a result record [err |-> <exception class>]; a call that returns is  *)
(* [err |-> "", val |-> <value>].                                          *)
(***************************************************************************)
EXTENDS Integers, Sequences, FiniteSets, TLC

VARIABLES
    state,        \* the caller's current world state: a set of ground atoms
    call,         \* the library call in progress / last made ("none" when idle)
    args,         \* the arguments of that call
    ret,          \* its result record ([err |-> "pending"] inside a loop)
    new_state,    \* transition(): the local new_state being built
    effect_todo   \* transition(): atoms of effect the for loop has not visited yet

vars == <<state, call, args, ret, new_state, effect_todo>>

-----------------------------------------------------------------------------
(* Bounds of the model.                                                    *)

\* number of objects of type block in the universe
NumBlocks == 2
\* largest effect set handed to transition() directly
MaxEffect == 2
\* the longest tuple of objects or entities handed to a call
MaxArity == 2

-----------------------------------------------------------------------------
(* Results of calls.                                                       *)

Ok(v) == [err |-> "", val |-> v]
Raise(e) == [err |-> e]
IsOk(r) == r.err = ""

Range(s) == {s[i] : i \in 1..Len(s)}

-----------------------------------------------------------------------------
(* Type, Object, Variable (structs.py 85-190).                             *)

\* Optional[Type] is a sequence of length 0 (None) or 1.
None == <<>>

Type(name, parent) == [name |-> name, feature_names |-> <<>>, parent |-> parent]

\* dataclass-generated Type.__eq__: compares (name, feature_names, parent)
TypeEq(t1, t2) ==
    /\ t1.name = t2.name
    /\ t1.feature_names = t2.feature_names
    /\ t1.parent = t2.parent

Object(name, type) == [name |-> name, type |-> type]
Variable(name, type) == [name |-> name, type |-> type]

\* _TypedEntity._str
EntityStr(e) == e.name \o ":" \o e.type.name

\* _TypedEntity.is_instance: walk the parent chain from the entity's type
RECURSIVE is_instance_from(_, _)
is_instance_from(cur_type, t) ==
    IF cur_type = None THEN FALSE
    ELSE IF TypeEq(cur_type[1], t) THEN TRUE
    ELSE is_instance_from(cur_type[1].parent, t)

is_instance(ent, t) == is_instance_from(<<ent.type>>, t)

-----------------------------------------------------------------------------
(* Predicate (structs.py 193-268).                                         *)

Predicate(name, types, is_negated) ==
    [name |-> name, types |-> types, is_negated |-> is_negated]

arity(p) == Len(p.types)

\* Predicate.__str__ without the NOT- of a negated predicate
PredicateStrNameOnly(p) == p.name

\* Predicate.__str__
PredicateStr(p) == IF ~p.is_negated THEN p.name ELSE "NOT-" \o p.name

\* dataclass-generated Predicate.__eq__: is_negated and _classifier are
\* declared compare=False, so only (name, types) are compared
PredicateEq(p, q) ==
    /\ p.name = q.name
    /\ Len(p.types) = Len(q.types)
    /\ \A i \in 1..Len(p.types) : TypeEq(p.types[i], q.types[i])

\* Predicate.__hash__ is hash(str(self)): the hash is modelled by the string
\* it is computed from (equal strings hash equally; collisions are ignored)
PredicateHash(p) == PredicateStr(p)

get_negation(p) == Predicate(p.name, p.types, ~p.is_negated)

-----------------------------------------------------------------------------
(* _Atom, LiftedAtom, GroundAtom (structs.py 304-500).                     *)

AtomValue(kind, predicate, entities) ==
    [kind |-> kind, predicate |-> predicate, entities |-> entities]

\* _Atom.__post_init__ without the per-position type check
NewAtomArityOnly(kind, predicate, entities) ==
    IF Len(entities) # arity(predicate) THEN Raise("ValueError")
    ELSE Ok(AtomValue(kind, predicate, entities))

\* _Atom.__post_init__: arity check, then per-position is_instance check
NewAtom(kind, predicate, entities) ==
    IF Len(entities) # arity(predicate) THEN Raise("ValueError")
    ELSE IF \E i \in 1..Len(entities) : ~is_instance(entities[i], predicate.types[i])
         THEN Raise("ValueError")
    ELSE Ok(AtomValue(kind, predicate, entities))

LiftedAtom(predicate, entities) == NewAtom("LiftedAtom", predicate, entities)
GroundAtom(predicate, entities) == NewAtom("GroundAtom", predicate, entities)

\* ", ".join(strs)
RECURSIVE JoinFrom(_, _, _)
JoinFrom(strs, i, sep) ==
    IF i > Len(strs) THEN ""
    ELSE IF i = Len(strs) THEN strs[i]
    ELSE strs[i] \o sep \o JoinFrom(strs, i + 1, sep)
Join(strs, sep) == JoinFrom(strs, 1, sep)

\* LiftedAtom._str / GroundAtom._str
AtomStr(a) ==
    PredicateStr(a.predicate) \o "("
        \o Join([i \in 1..Len(a.entities) |-> EntityStr(a.entities[i])], ", ") \o ")"

\* _Atom.__eq__ and _Atom.__hash__: by canonical string
AtomEq(a, b) == AtomStr(a) = AtomStr(b)
AtomHash(a) == AtomStr(a)

-----------------------------------------------------------------------------
(* Python set[GroundAtom] operations, with the atoms' own __eq__.          *)

SetContains(S, x) == \E s \in S : AtomEq(s, x)
SetAdd(S, x) == IF SetContains(S, x) THEN S ELSE S \cup {x}
SetDiscard(S, x) == {s \in S : ~AtomEq(s, x)}
issubset(A, B) == \A x \in A : SetContains(B, x)

\* filter_valid_state (utils/structs_functs.py 95-102)
filter_valid_state(S) == {atom \in S : ~atom.predicate.is_negated}

\* get_objects_in_state / get_objects_by_type (utils/structs_functs.py 109-117)
get_objects_in_state(S) == UNION {Range(atom.entities) : atom \in S}
get_objects_by_type(objects, type) == {obj \in objects : TypeEq(obj.type, type)}

-----------------------------------------------------------------------------
(* Formula variants (structs.py 503-844).  A formula is a record tagged    *)
(* with the name of its class in field kind; a LiftedAtom is an AtomValue. *)

LiteralConjunction(literals) == [kind |-> "LiteralConjunction", literals |-> literals]
LiteralDisjunction(literals) == [kind |-> "LiteralDisjunction", literals |-> literals]
ForAll(variables, body, is_negative) ==
    [kind |-> "ForAll", variables |-> variables, body |-> body, is_negative |-> is_negative]
Exists(variables, body, is_negative) ==
    [kind |-> "Exists", variables |-> variables, body |-> body, is_negative |-> is_negative]
When(condition, effect) == [kind |-> "When", condition |-> condition, effect |-> effect]
Imply(antecedent, consequent) ==
    [kind |-> "Imply", antecedent |-> antecedent, consequent |-> consequent]
EqualToValue(left, right, is_negative) ==
    [kind |-> "EqualTo", left |-> left, right |-> right, is_negative |-> is_negative]

\* EqualTo.__post_init__
EqualTo(left, right, is_negative) ==
    IF ~(is_instance(left, right.type) \/ is_instance(right, left.type))
    THEN Raise("ValueError")
    ELSE Ok(EqualToValue(left, right, is_negative))

\* A bare Python str that ends up in a set of Variables is boxed in a record,
\* so that it can share a set with Variable records; it equals no Variable.
BoxedStr(name) == [str |-> name]
IsBoxedStr(x) == "str" \in DOMAIN x

\* exposed_variables of each variant; a result record, because the
\* disjunction's v.name raises AttributeError on a str element
RECURSIVE exposed_variables(_)
RECURSIVE exposed_variables_of_all(_, _)

\* the exposed_variables of literals[i..], united while no child has raised
exposed_variables_of_all(literals, i) ==
    IF i > Len(literals) THEN Ok({})
    ELSE LET first == exposed_variables(literals[i])
             rest == exposed_variables_of_all(literals, i + 1)
         IN IF ~IsOk(first) THEN first
            ELSE IF ~IsOk(rest) THEN rest
            ELSE Ok(first.val \cup rest.val)

\* LiteralDisjunction.exposed_variables: collects v.name, not v
DisjunctionExposed(f) ==
    LET children == exposed_variables_of_all(f.literals, 1)
    IN IF ~IsOk(children) THEN children
       ELSE IF \E v \in children.val : IsBoxedStr(v) THEN Raise("AttributeError")
       ELSE Ok({BoxedStr(v.name) : v \in children.val})

exposed_variables(f) ==
    CASE f.kind = "LiftedAtom" -> Ok(Range(f.entities))
      [] f.kind = "LiteralConjunction" -> exposed_variables_of_all(f.literals, 1)
      [] f.kind = "LiteralDisjunction" -> DisjunctionExposed(f)
      [] f.kind \in {"ForAll", "Exists"} ->
            LET body == exposed_variables(f.body)
            IN IF ~IsOk(body) THEN body ELSE Ok(body.val \ Range(f.variables))
      [] f.kind = "When" ->
            exposed_variables_of_all(<<f.condition, f.effect>>, 1)
      [] f.kind = "Imply" ->
            exposed_variables_of_all(<<f.antecedent, f.consequent>>, 1)
      [] f.kind = "EqualTo" -> Ok({f.left, f.right})

\* used_predicates of each variant
RECURSIVE used_predicates(_)
used_predicates(f) ==
    CASE f.kind = "LiftedAtom" -> {f.predicate}
      [] f.kind \in {"LiteralConjunction", "LiteralDisjunction"} ->
            UNION {used_predicates(f.literals[i]) : i \in 1..Len(f.literals)}
      [] f.kind \in {"ForAll", "Exists"} -> used_predicates(f.body)
      [] f.kind = "When" -> used_predicates(f.condition) \cup used_predicates(f.effect)
      [] f.kind = "Imply" -> used_predicates(f.antecedent) \cup used_predicates(f.consequent)
      [] f.kind = "EqualTo" -> {}

\* str([v.name for v in variables]): the repr of a list of str
NameListRepr(variables) ==
    "[" \o Join([i \in 1..Len(variables) |-> "'" \o variables[i].name \o "'"], ", ") \o "]"

\* _str of each variant (the canonical string)
RECURSIVE FormulaStr(_)
FormulaStr(f) ==
    CASE f.kind = "LiftedAtom" -> AtomStr(f)
      [] f.kind = "LiteralConjunction" ->
            "AND(" \o Join([i \in 1..Len(f.literals) |-> FormulaStr(f.literals[i])], ", ") \o ")"
      [] f.kind = "LiteralDisjunction" ->
            "OR(" \o Join([i \in 1..Len(f.literals) |-> FormulaStr(f.literals[i])], ", ") \o ")"
      [] f.kind = "ForAll" ->
            (IF f.is_negative THEN "NOT-" ELSE "")
                \o "FORALL(" \o NameListRepr(f.variables) \o ") : " \o FormulaStr(f.body)
      [] f.kind = "Exists" ->
            (IF f.is_negative THEN "NOT-" ELSE "")
                \o "EXISTS(" \o NameListRepr(f.variables) \o ") : " \o FormulaStr(f.body)
      [] f.kind = "When" ->
            "WHEN(" \o FormulaStr(f.condition) \o ") : " \o FormulaStr(f.effect)
      [] f.kind = "Imply" ->
            "IMPLY(" \o FormulaStr(f.antecedent) \o ") => " \o FormulaStr(f.consequent)
      [] f.kind = "EqualTo" ->
            IF f.is_negative THEN "NOT(" \o f.left.name \o " = " \o f.right.name \o ")"
            ELSE f.left.name \o " = " \o f.right.name

-----------------------------------------------------------------------------
(* Substitutions: a dict[Variable, Object] is a function on its key set.   *)

MinOf(a, b) == IF a < b THEN a ELSE b

\* dict(zip(ks, vs)): zip stops at the shorter one, a repeated key keeps
\* the value of its last position
DictZip(ks, vs) ==
    LET n == MinOf(Len(ks), Len(vs))
    IN [k \in {ks[i] : i \in 1..n} |->
            vs[CHOOSE i \in 1..n : ks[i] = k /\ \A j \in (i + 1)..n : ks[j] # k]]

\* d.update(e) on a copy of d
DictUpdate(d, e) ==
    [k \in DOMAIN d \cup DOMAIN e |-> IF k \in DOMAIN e THEN e[k] ELSE d[k]]

\* set(S) of a collection of atoms: one representative per canonical string
SetOf(S) == {s \in S : s = CHOOSE t \in S : AtomEq(s, t)}

\* tuples whose candidates are the objects that are instances of the
\* variable's type
ProductOfInstances(variables, objects) ==
    {c \in [1..Len(variables) -> objects] :
        \A i \in 1..Len(variables) : is_instance(c[i], variables[i].type)}

\* the tuples of itertools.product over the per-variable candidate lists,
\* the candidates being the objects of the pool whose type == the variable's
Product(variables, objects) ==
    {c \in [1..Len(variables) -> objects] :
        \A i \in 1..Len(variables) : c[i] \in get_objects_by_type(objects, variables[i].type)}

-----------------------------------------------------------------------------
(* evaluate and ground (structs.py 461-837).  The order in which a Python  *)
(* set is iterated is not fixed, so a quantifier that raises for one       *)
(* candidate and stops for another has several possible outcomes: both     *)
(* operators give the SET of possible result records.                      *)

\* the assertion set(self.exposed_variables).issubset(set(sub.keys())):
\* "" when it passes, else the exception class
AssertExposedBound(f, sub) ==
    LET exposed == exposed_variables(f)
    IN IF ~IsOk(exposed) THEN exposed.err
       ELSE IF \A v \in exposed.val : ~IsBoxedStr(v) /\ v \in DOMAIN sub THEN ""
       ELSE "AssertionError"

\* LiftedAtom.ground
AtomGround(f, sub) ==
    IF ~(Range(f.entities) \subseteq DOMAIN sub) THEN Raise("AssertionError")
    ELSE LET atom == GroundAtom(f.predicate, [i \in 1..Len(f.entities) |-> sub[f.entities[i]]])
         IN IF IsOk(atom) THEN Ok({atom.val}) ELSE atom

\* LiftedAtom.evaluate
AtomEvaluate(f, sub, world) ==
    LET grounded == AtomGround(f, sub)
    IN IF IsOk(grounded) THEN Ok(issubset(filter_valid_state(grounded.val), world))
       ELSE grounded

\* EqualTo.evaluate
EqualToEvaluate(f, sub) ==
    IF f.left \notin DOMAIN sub \/ f.right \notin DOMAIN sub THEN Raise("KeyError")
    ELSE LET result == (sub[f.left] = sub[f.right])
         IN Ok(IF f.is_negative THEN ~result ELSE result)

RECURSIVE evaluate(_, _, _)
RECURSIVE ground(_, _, _)
RECURSIVE evaluate_all(_, _, _, _)
RECURSIVE evaluate_any(_, _, _, _)
RECURSIVE ground_all(_, _, _, _)
RECURSIVE evaluate_all_eager(_, _, _, _)

\* a loop that evaluates every literal before it answers
evaluate_all_eager(literals, i, sub, world) ==
    IF i > Len(literals) THEN {Ok(TRUE)}
    ELSE UNION {IF ~IsOk(r) THEN {r}
                ELSE {IF ~IsOk(rest) THEN rest ELSE Ok(r.val /\ rest.val)
                      : rest \in evaluate_all_eager(literals, i + 1, sub, world)}
                : r \in evaluate(literals[i], sub, world)}

\* the loop of LiteralConjunction.evaluate from literal i on
evaluate_all(literals, i, sub, world) ==
    IF i > Len(literals) THEN {Ok(TRUE)}
    ELSE UNION {IF ~IsOk(r) THEN {r}
                ELSE IF ~r.val THEN {Ok(FALSE)}
                ELSE evaluate_all(literals, i + 1, sub, world)
                : r \in evaluate(literals[i], sub, world)}

\* the loop of LiteralDisjunction.evaluate from literal i on
evaluate_any(literals, i, sub, world) ==
    IF i > Len(literals) THEN {Ok(FALSE)}
    ELSE UNION {IF ~IsOk(r) THEN {r}
                ELSE IF r.val THEN {Ok(TRUE)}
                ELSE evaluate_any(literals, i + 1, sub, world)
                : r \in evaluate(literals[i], sub, world)}

\* the loop of LiteralConjunction.ground from literal i on
ground_all(literals, i, sub, world) ==
    IF i > Len(literals) THEN {Ok({})}
    ELSE IF literals[i].kind = "EqualTo" THEN {Raise("AssertionError")}
    ELSE UNION {IF ~IsOk(r) THEN {r}
                ELSE {IF IsOk(rest) THEN Ok(SetOf(r.val \cup rest.val)) ELSE rest
                      : rest \in ground_all(literals, i + 1, sub, world)}
                : r \in ground(literals[i], sub, world)}

\* an Exists.evaluate that answers after the first candidate tuple alone
ExistsEvaluateFirstOnly(f, sub, world) ==
    LET combos == Product(f.variables, get_objects_in_state(world))
        body(c) == evaluate(f.body, DictUpdate(sub, DictZip(f.variables, c)), world)
    IN IF combos = {} THEN {Ok(IF f.is_negative THEN TRUE ELSE FALSE)}
       ELSE UNION {{IF ~IsOk(r) THEN r
                    ELSE Ok(IF r.val THEN ~f.is_negative ELSE f.is_negative)
                    : r \in body(c)} : c \in combos}

\* Exists.evaluate: the loop stops at the first candidate tuple whose body
\* raises or holds; it runs to the end only if every body can evaluate false
ExistsEvaluate(f, sub, world) ==
    LET combos == Product(f.variables, get_objects_in_state(world))
        body(c) == evaluate(f.body, DictUpdate(sub, DictZip(f.variables, c)), world)
        stops == UNION {{r \in body(c) : ~IsOk(r) \/ r.val} : c \in combos}
    IN {IF IsOk(r) THEN Ok(IF f.is_negative THEN FALSE ELSE TRUE) ELSE r : r \in stops}
       \cup (IF \A c \in combos : \E r \in body(c) : IsOk(r) /\ ~r.val
             THEN {Ok(IF f.is_negative THEN TRUE ELSE FALSE)} ELSE {})

\* a ForAll.ground that grounds its body once more than there are candidates
ForAllGroundChecked(f, sub, world) ==
    LET combos == Product(f.variables, get_objects_in_state(world))
        body(c) == ground(f.body, DictUpdate(sub, DictZip(f.variables, c)), world)
        raised == UNION {{r \in body(c) : ~IsOk(r)} : c \in combos}
                    \cup {r \in ground(f.body, sub, world) : ~IsOk(r)}
        grounded == UNION {UNION {r.val : r \in {x \in body(c) : IsOk(x)}} : c \in combos}
    IN IF raised # {} THEN raised ELSE {Ok(SetOf(grounded))}

\* ForAll.ground: the loop stops at the first candidate tuple whose body
\* raises; otherwise the result is the union of all grounded bodies
ForAllGround(f, sub, world) ==
    LET combos == Product(f.variables, get_objects_in_state(world))
        body(c) == ground(f.body, DictUpdate(sub, DictZip(f.variables, c)), world)
        raised == UNION {{r \in body(c) : ~IsOk(r)} : c \in combos}
        grounded == UNION {UNION {r.val : r \in {x \in body(c) : IsOk(x)}} : c \in combos}
    IN raised \cup (IF \A c \in combos : \E r \in body(c) : IsOk(r)
                    THEN {Ok(SetOf(grounded))} ELSE {})

\* a When.ground that looks at its condition in the state its own effect
\* has already been applied to
WhenGroundInPostState(f, sub, world) ==
    LET twin(a) == GroundAtom(get_negation(a.predicate), a.entities).val
        post(atoms) == {s \in world : \A a \in atoms : ~AtomEq(s, twin(a))} \cup atoms
    IN IF AssertExposedBound(f, sub) # "" THEN {Raise(AssertExposedBound(f, sub))}
       ELSE UNION {IF ~IsOk(g) THEN {g}
                   ELSE UNION {IF ~IsOk(r) THEN {r}
                               ELSE IF r.val THEN {g}
                               ELSE {Ok({})}
                               : r \in evaluate(f.condition, sub, post(g.val))}
                   : g \in ground(f.effect, sub, world)}

\* When.ground: the effect grounded in the given state if the condition
\* evaluates true in that same state, the empty set if it evaluates false
WhenGround(f, sub, world) ==
    IF AssertExposedBound(f, sub) # "" THEN {Raise(AssertExposedBound(f, sub))}
    ELSE UNION {IF ~IsOk(r) THEN {r}
                ELSE IF r.val THEN ground(f.effect, sub, world)
                ELSE {Ok({})}
                : r \in evaluate(f.condition, sub, world)}

evaluate(f, sub, world) ==
    CASE f.kind = "LiftedAtom" -> {AtomEvaluate(f, sub, world)}
      [] f.kind = "LiteralConjunction" ->
            IF AssertExposedBound(f, sub) # "" THEN {Raise(AssertExposedBound(f, sub))}
            ELSE evaluate_all(f.literals, 1, sub, world)
      [] f.kind = "LiteralDisjunction" ->
            IF AssertExposedBound(f, sub) # "" THEN {Raise(AssertExposedBound(f, sub))}
            ELSE evaluate_any(f.literals, 1, sub, world)
      [] f.kind = "ForAll" -> {Raise("RuntimeError")}
      [] f.kind = "Exists" -> ExistsEvaluate(f, sub, world)
      [] f.kind = "When" -> {Raise("RuntimeError")}
      [] f.kind = "Imply" ->
            IF AssertExposedBound(f, sub) # "" THEN {Raise(AssertExposedBound(f, sub))}
            ELSE UNION {IF ~IsOk(r) THEN {r}
                        ELSE IF r.val THEN evaluate(f.consequent, sub, world)
                        ELSE {Ok(TRUE)}
                        : r \in evaluate(f.antecedent, sub, world)}
      [] f.kind = "EqualTo" -> {EqualToEvaluate(f, sub)}

ground(f, sub, world) ==
    CASE f.kind = "LiftedAtom" -> {AtomGround(f, sub)}
      [] f.kind = "LiteralConjunction" ->
            IF AssertExposedBound(f, sub) # "" THEN {Raise(AssertExposedBound(f, sub))}
            ELSE ground_all(f.literals, 1, sub, world)
      [] f.kind = "LiteralDisjunction" -> {Raise("NotImplementedError")}
      [] f.kind = "ForAll" -> ForAllGround(f, sub, world)
      [] f.kind = "Exists" -> {Raise("NotImplementedError")}
      [] f.kind = "When" -> WhenGround(f, sub, world)
      [] f.kind = "Imply" -> {Raise("RuntimeError")}
      [] f.kind = "EqualTo" -> {Raise("RuntimeError")}

-----------------------------------------------------------------------------
(* Operator and GroundOperator (structs.py 847-1014).                      *)

OperatorValue(name, parameters, preconditions, effects) ==
    [name |-> name, parameters |-> parameters,
     preconditions |-> preconditions, effects |-> effects]

\* Operator.__post_init__
NewOperator(name, parameters, preconditions, effects) ==
    LET precond_vars == exposed_variables(preconditions)
        effect_vars == exposed_variables(effects)
    IN IF ~IsOk(precond_vars) THEN precond_vars
       ELSE IF precond_vars.val \ Range(parameters) # {} THEN Raise("ValueError")
       ELSE IF ~IsOk(effect_vars) THEN effect_vars
       ELSE IF effect_vars.val \ Range(parameters) # {} THEN Raise("ValueError")
       ELSE IF used_predicates(effects) = {} THEN Raise("ValueError")
       ELSE Ok(OperatorValue(name, parameters, preconditions, effects))

GroundOperator(parent, objects, preconditions, effects) ==
    [parent |-> parent, objects |-> objects,
     preconditions |-> preconditions, effects |-> effects]

\* Operator.ground that grounds the effect only of an applicable operator
OperatorGroundIfApplicable(op, objects, world) ==
    IF Len(objects) # Len(op.parameters) THEN {Raise("AssertionError")}
    ELSE IF \E i \in 1..Len(objects) : ~is_instance(objects[i], op.parameters[i].type)
         THEN {Raise("AssertionError")}
    ELSE LET sub == DictZip(op.parameters, objects)
         IN UNION {IF ~IsOk(pre) THEN {pre}
                   ELSE IF ~pre.val THEN {Ok(GroundOperator(op, objects, FALSE, {}))}
                   ELSE {IF ~IsOk(eff) THEN eff
                         ELSE Ok(GroundOperator(op, objects, pre.val, eff.val))
                         : eff \in ground(op.effects, sub, world)}
                   : pre \in evaluate(op.preconditions, sub, world)}

\* Operator.ground: the possible results
OperatorGround(op, objects, world) ==
    IF Len(objects) # Len(op.parameters) THEN {Raise("AssertionError")}
    ELSE IF \E i \in 1..Len(objects) : ~is_instance(objects[i], op.parameters[i].type)
         THEN {Raise("AssertionError")}
    ELSE LET sub == DictZip(op.parameters, objects)
         IN UNION {IF ~IsOk(pre) THEN {pre}
                   ELSE {IF ~IsOk(eff) THEN eff
                         ELSE Ok(GroundOperator(op, objects, pre.val, eff.val))
                         : eff \in ground(op.effects, sub, world)}
                   : pre \in evaluate(op.preconditions, sub, world)}

-----------------------------------------------------------------------------
(* transition, get_substitutions, sample_ground_operator                   *)
(* (utils/structs_functs.py 18-45).                                        *)

\* the negated twin GroundAtom(atom.predicate.get_negation(), atom.objects)
NegatedTwin(atom) == GroundAtom(get_negation(atom.predicate), atom.entities).val

\* one iteration of transition's loop without the discard
TransitionStepAddOnly(running, atom) == SetAdd(running, atom)

\* one iteration of transition's loop: discard the twin, add the atom
TransitionStep(running, atom) == SetAdd(SetDiscard(running, NegatedTwin(atom)), atom)

\* the whole loop of transition along one iteration order of effect
RECURSIVE TransitionAlong(_, _, _)
TransitionAlong(running, order, i) ==
    IF i > Len(order) THEN running
    ELSE TransitionAlong(TransitionStep(running, order[i]), order, i + 1)

\* get_substitutions: the substitution yielded for each tuple of the product
get_substitutions(variables, objects) ==
    [c \in Product(variables, objects) |-> DictZip(variables, c)]

\* sample_ground_operator run to its end: the possible outcomes, each the
\* exception that ended it ("" for none) and the ground operators yielded,
\* as a function of the product tuple they were yielded for
sample_ground_operator(objects, sym_state, operator) ==
    LET subs == get_substitutions(operator.parameters, objects)
        combos == DOMAIN subs
        grounded(c) ==
            OperatorGround(operator,
                           [i \in 1..Len(operator.parameters) |-> subs[c][operator.parameters[i]]],
                           sym_state)
        returns(c) == \E r \in grounded(c) : IsOk(r)
        ground_op(c) == (CHOOSE r \in grounded(c) : IsOk(r)).val
        yielded(done) == [c \in {c \in done : ground_op(c).preconditions} |-> ground_op(c)]
    IN (IF \A c \in combos : returns(c)
        THEN {[err |-> "", yielded |-> yielded(combos)]} ELSE {})
       \cup UNION {UNION {{[err |-> r.err, yielded |-> yielded(done)]
                           : done \in SUBSET {d \in combos \ {c} : returns(d)}}
                          : r \in {x \in grounded(c) : ~IsOk(x)}}
                   : c \in combos}

-----------------------------------------------------------------------------
(* Not (structs.py 1058-1116).                                             *)

IsPredicate(x) == "types" \in DOMAIN x
IsAtom(x) == x.kind \in {"LiftedAtom", "GroundAtom"}

\* Not of a quantifier that turns it into the dual quantifier
NotQuantifierDual(x) ==
    Ok([kind |-> IF x.kind = "ForAll" THEN "Exists" ELSE "ForAll",
        variables |-> x.variables, body |-> x.body, is_negative |-> x.is_negative])

\* Not of a ForAll or an Exists: the same quantifier, is_negative toggled
NotQuantifier(x) ==
    Ok([kind |-> x.kind, variables |-> x.variables, body |-> x.body,
        is_negative |-> ~x.is_negative])

RECURSIVE Not(_)
RECURSIVE NotEach(_, _)
RECURSIVE NotEachKeepAll(_, _)

\* the loop of Not over the literals that keeps every negation
NotEachKeepAll(literals, i) ==
    IF i > Len(literals) THEN Ok(<<>>)
    ELSE LET negated_lit == Not(literals[i])
             rest == NotEachKeepAll(literals, i + 1)
         IN IF ~IsOk(negated_lit) THEN negated_lit
            ELSE IF ~IsOk(rest) THEN rest
            ELSE Ok(<<negated_lit.val>> \o rest.val)

\* the loop over x.literals: the negations that are atoms, in order
NotEach(literals, i) ==
    IF i > Len(literals) THEN Ok(<<>>)
    ELSE LET negated_lit == Not(literals[i])
             rest == NotEach(literals, i + 1)
         IN IF ~IsOk(negated_lit) THEN negated_lit
            ELSE IF ~IsOk(rest) THEN rest
            ELSE Ok((IF IsAtom(negated_lit.val) THEN <<negated_lit.val>> ELSE <<>>)
                        \o rest.val)

Not(x) ==
    IF IsPredicate(x) THEN Ok(get_negation(x))
    ELSE CASE x.kind \in {"ForAll", "Exists"} -> NotQuantifier(x)
           [] x.kind = "When" ->
                LET negated_effect == Not(x.effect)
                IN IF IsOk(negated_effect) THEN Ok(When(x.condition, negated_effect.val))
                   ELSE negated_effect
           [] x.kind = "Imply" ->
                LET negated_consequent == Not(x.consequent)
                IN IF ~IsOk(negated_consequent) THEN negated_consequent
                   ELSE IF IsAtom(negated_consequent.val)
                        THEN Ok(LiteralConjunction(<<x.antecedent, negated_consequent.val>>))
                   ELSE Raise("ValueError")
           [] x.kind = "EqualTo" -> EqualTo(x.left, x.right, ~x.is_negative)
           [] x.kind = "LiteralConjunction" ->
                LET negated_literals == NotEach(x.literals, 1)
                IN IF IsOk(negated_literals) THEN Ok(LiteralDisjunction(negated_literals.val))
                   ELSE negated_literals
           [] x.kind = "LiteralDisjunction" ->
                LET negated_literals == NotEach(x.literals, 1)
                IN IF IsOk(negated_literals) THEN Ok(LiteralConjunction(negated_literals.val))
                   ELSE negated_literals
           [] x.kind = "LiftedAtom" -> LiftedAtom(get_negation(x.predicate), x.entities)
           [] x.kind = "GroundAtom" -> GroundAtom(get_negation(x.predicate), x.entities)

-----------------------------------------------------------------------------
(* The universe the calls draw their arguments from.                       *)

block == Type("block", None)
cube == Type("cube", <<block>>)
robot == Type("robot", None)

BlockNames == <<"a", "b", "d", "e">>
Blocks == {Object(BlockNames[i], block) : i \in 1..NumBlocks}
obj_a == Object("a", block)
obj_b == Object("b", block)
obj_c == Object("c", cube)
obj_r == Object("r", robot)
Objects == Blocks \cup {obj_c, obj_r}

var_b == Variable("?b", block)
var_x == Variable("?x", block)
var_y == Variable("?y", block)
var_c == Variable("?c", cube)

clear == Predicate("clear", <<block>>, FALSE)
on == Predicate("on", <<block, block>>, FALSE)
handempty == Predicate("handempty", <<>>, FALSE)
handempty_atom == LiftedAtom(handempty, <<>>).val

\* every ground atom of clear / NOT-clear that can be constructed
WorldAtoms ==
    {r.val : r \in {r \in {GroundAtom(p, <<o>>) : p \in {clear, get_negation(clear)},
                                                  o \in Objects} : IsOk(r)}}

clear_of(v) == LiftedAtom(clear, <<v>>).val
not_clear_of(v) == Not(clear_of(v)).val

\* the operators of the domain
clear_to_dirty == NewOperator("clear-to-dirty", <<var_b>>, clear_of(var_b), not_clear_of(var_b)).val
move ==
    NewOperator("move", <<var_x, var_y>>, clear_of(var_x),
                LiteralConjunction(<<not_clear_of(var_x), clear_of(var_y)>>)).val
polish ==
    NewOperator("polish", <<var_b>>,
                LiteralConjunction(<<clear_of(var_b), ForAll(<<var_x>>, clear_of(var_x), FALSE)>>),
                clear_of(var_b)).val
tidy ==
    NewOperator("tidy", <<var_b>>, not_clear_of(var_b),
                ForAll(<<var_x>>, clear_of(var_x), FALSE)).val
cover ==
    NewOperator("cover", <<var_x, var_y>>, Exists(<<var_b>>, clear_of(var_b), FALSE),
                When(clear_of(var_x), not_clear_of(var_y))).val
twice == NewOperator("twice", <<var_b, var_b>>, clear_of(var_b), not_clear_of(var_b)).val
lift_cube == NewOperator("lift-cube", <<var_c>>, clear_of(var_c), not_clear_of(var_c)).val

Operators == {clear_to_dirty, move, polish, tidy, cover, twice, lift_cube}

\* (forall (?x - block) (clear ?x)), (exists (?x - block) (clear ?x)) and
\* (= ?x ?y)
all_clear == ForAll(<<var_x>>, clear_of(var_x), FALSE)
some_clear == Exists(<<var_x>>, clear_of(var_x), FALSE)
same_block == EqualTo(var_x, var_y, FALSE).val
on_of(v, w) == LiftedAtom(on, <<v, w>>).val

\* the formulas handed to evaluate
Conditions ==
    {clear_of(var_b), not_clear_of(var_b), clear_of(var_c),
     LiteralConjunction(<<clear_of(var_x), not_clear_of(var_y)>>),
     Exists(<<var_b>>, clear_of(var_b), TRUE),
     Imply(clear_of(var_x), clear_of(var_y)),
     When(clear_of(var_x), clear_of(var_y)),
     all_clear,
     LiteralConjunction(<<clear_of(var_b), all_clear>>),
     LiteralConjunction(<<all_clear, clear_of(var_b)>>),
     Imply(clear_of(var_x), When(clear_of(var_x), clear_of(var_y))),
     Exists(<<var_b>>, all_clear, FALSE),
     LiteralDisjunction(<<>>),
     LiteralDisjunction(<<clear_of(var_b), not_clear_of(var_b)>>),
     LiteralDisjunction(<<clear_of(var_x), clear_of(var_y)>>),
     LiteralDisjunction(<<handempty_atom, Not(handempty_atom).val>>),
     LiteralDisjunction(<<handempty_atom, handempty_atom>>),
     LiteralDisjunction(<<Not(handempty_atom).val, all_clear>>),
     LiteralDisjunction(<<handempty_atom, all_clear>>),
     some_clear,
     Exists(<<var_b>>, clear_of(var_b), FALSE),
     Exists(<<var_x, var_c>>, LiteralConjunction(<<clear_of(var_x), clear_of(var_c)>>), FALSE),
     Exists(<<var_x, var_y>>, LiteralConjunction(<<clear_of(var_x), not_clear_of(var_y)>>), TRUE)}

\* the formulas handed to ground
GroundedFormulas ==
    {clear_of(var_b), all_clear,
     LiteralConjunction(<<not_clear_of(var_x), clear_of(var_y)>>),
     When(clear_of(var_x), not_clear_of(var_y)),
     some_clear, same_block, LiteralDisjunction(<<>>),
     LiteralDisjunction(<<clear_of(var_b), not_clear_of(var_b)>>),
     LiteralConjunction(<<clear_of(var_b), some_clear>>),
     LiteralConjunction(<<clear_of(var_x), same_block>>),
     LiteralConjunction(<<LiteralDisjunction(<<>>), clear_of(var_b)>>),
     When(clear_of(var_x), same_block),
     When(clear_of(var_b), some_clear),
     When(clear_of(var_b), LiteralDisjunction(<<>>)),
     ForAll(<<var_x, var_y>>, same_block, FALSE),
     ForAll(<<var_x>>, some_clear, FALSE),
     ForAll(<<var_c>>, LiteralDisjunction(<<>>), FALSE),
     ForAll(<<var_x, var_y>>, on_of(var_x, var_y), FALSE),
     ForAll(<<var_x, var_c>>, on_of(var_x, var_c), FALSE),
     ForAll(<<var_x>>, on_of(var_x, var_b), FALSE),
     ForAll(<<var_y>>, When(clear_of(var_y), not_clear_of(var_y)), FALSE)}

\* the substitutions handed to evaluate
Substitutions ==
    UNION {[V -> Objects] : V \in {{}, {var_b}, {var_c}, {var_x, var_y}}}

\* the object tuples handed to Operator.ground
ObjectTuples == UNION {[1..n -> Objects] : n \in 0..MaxArity}

\* the effect sets handed to transition
Effects == {e \in SUBSET WorldAtoms : Cardinality(e) <= MaxEffect}

-----------------------------------------------------------------------------
(* The calls on a world state.                                             *)

Idle == [err |-> "idle"]
Pending == [err |-> "pending"]
NoArgs == <<>>

\* problem.init: positive facts only
Init ==
    /\ state \in SUBSET filter_valid_state(WorldAtoms)
    /\ call = "none"
    /\ args = NoArgs
    /\ ret = Idle
    /\ new_state = {}
    /\ effect_todo = {}

\* formula.evaluate(sub, state)
EvaluateCall ==
    /\ call = "none"
    /\ \E f \in Conditions, sub \in Substitutions :
        /\ args' = [formula |-> f, sub |-> sub, state |-> state]
        /\ \E r \in evaluate(f, sub, state) : ret' = r
    /\ call' = "evaluate"
    /\ UNCHANGED <<state, new_state, effect_todo>>

\* formula.ground(sub, state)
GroundFormulaCall ==
    /\ call = "none"
    /\ \E f \in GroundedFormulas, sub \in Substitutions :
        /\ args' = [formula |-> f, sub |-> sub, state |-> state]
        /\ \E r \in ground(f, sub, state) : ret' = r
    /\ call' = "formula.ground"
    /\ UNCHANGED <<state, new_state, effect_todo>>

\* operator.ground(objects, state)
GroundCall ==
    /\ call = "none"
    /\ \E op \in Operators, objects \in ObjectTuples :
        /\ args' = [operator |-> op, objects |-> objects, state |-> state]
        /\ \E r \in OperatorGround(op, objects, state) : ret' = r
    /\ call' = "ground"
    /\ UNCHANGED <<state, new_state, effect_todo>>

\* list(sample_ground_operator(objects, state, operator))
SampleCall ==
    /\ call = "none"
    /\ \E op \in Operators, pool \in SUBSET Objects :
        /\ args' = [operator |-> op, objects |-> pool, state |-> state]
        /\ \E r \in sample_ground_operator(pool, state, op) : ret' = r
    /\ call' = "sample"
    /\ UNCHANGED <<state, new_state, effect_todo>>

\* transition(state, effect): new_state = set(curr_state), the loop begins
TransitionCall ==
    /\ call = "none"
    /\ \E effect \in Effects :
        /\ args' = [curr_state |-> state, effect |-> effect]
        /\ effect_todo' = effect
    /\ new_state' = state
    /\ call' = "transition"
    /\ ret' = Pending
    /\ UNCHANGED state

\* one iteration of `for atom in effect`, in whatever order the set gives
TransitionIter ==
    /\ call = "transition"
    /\ ret = Pending
    /\ \E atom \in effect_todo :
        /\ new_state' = TransitionStep(new_state, atom)
        /\ effect_todo' = effect_todo \ {atom}
    /\ UNCHANGED <<state, call, args, ret>>

\* return new_state
TransitionReturn ==
    /\ call = "transition"
    /\ ret = Pending
    /\ effect_todo = {}
    /\ ret' = Ok(new_state)
    /\ UNCHANGED <<state, call, args, new_state, effect_todo>>

\* the caller goes on; the state a transition returned becomes its state
Return ==
    /\ call # "none"
    /\ ret # Pending
    /\ state' = IF call = "transition" THEN ret.val ELSE state
    /\ call' = "none"
    /\ args' = NoArgs
    /\ ret' = Idle
    /\ new_state' = {}
    /\ effect_todo' = {}

Next ==
    \/ EvaluateCall
    \/ GroundFormulaCall
    \/ GroundCall
    \/ SampleCall
    \/ TransitionCall
    \/ TransitionIter
    \/ TransitionReturn
    \/ Return

Spec == Init /\ [][Next]_vars

-----------------------------------------------------------------------------
(* Constructing and comparing values.                                      *)

\* repr of a list of entities
EntityListRepr(entities) ==
    "[" \o Join([i \in 1..Len(entities) |-> EntityStr(entities[i])], ", ") \o "]"

\* Operator._str
OperatorStr(op) ==
    "STRIPS-" \o op.name \o ":\n    Parameters: " \o EntityListRepr(op.parameters)
        \o "\n    Preconditions: " \o FormulaStr(op.preconditions)
        \o "\n    Effects: " \o FormulaStr(op.effects)

\* str(i) of a small index
Digits == <<"0", "1", "2", "3", "4", "5", "6", "7", "8", "9">>
IntStr(i) == Digits[i + 1]

\* Predicate.pddl_str
PredicatePddlStr(p) ==
    IF arity(p) = 0 THEN "(" \o p.name \o ")"
    ELSE "(" \o p.name \o " "
            \o Join([i \in 1..Len(p.types) |-> "?x" \o IntStr(i - 1) \o " - " \o p.types[i].name], " ")
            \o ")"

\* _Atom.pddl_str
AtomPddlStr(a) ==
    IF Len(a.entities) = 0 THEN "(" \o a.predicate.name \o ")"
    ELSE LET pddl_str == "(" \o a.predicate.name \o " "
                            \o Join([i \in 1..Len(a.entities) |-> a.entities[i].name], " ") \o ")"
         IN IF a.predicate.is_negated THEN "(not " \o pddl_str \o ")" ELSE pddl_str

\* "?v - type" of each variable, joined by blanks
TypedListStr(variables) ==
    Join([i \in 1..Len(variables) |-> variables[i].name \o " - " \o variables[i].type.name], " ")

\* pddl_str of each variant
RECURSIVE FormulaPddlStr(_)
FormulaPddlStr(f) ==
    CASE f.kind \in {"LiftedAtom", "GroundAtom"} -> AtomPddlStr(f)
      [] f.kind \in {"LiteralConjunction", "LiteralDisjunction"} ->
            IF Len(f.literals) = 1 THEN FormulaPddlStr(f.literals[1])
            ELSE (IF f.kind = "LiteralConjunction" THEN "(and " ELSE "(or ")
                    \o Join([i \in 1..Len(f.literals) |-> FormulaPddlStr(f.literals[i])], " ")
                    \o ")"
      [] f.kind \in {"ForAll", "Exists"} ->
            LET quantified ==
                    (IF f.kind = "ForAll" THEN "(forall (" ELSE "(exists (")
                        \o TypedListStr(f.variables) \o ") " \o FormulaPddlStr(f.body) \o ")"
            IN IF f.is_negative THEN "(not " \o quantified \o ")" ELSE quantified
      [] f.kind = "When" ->
            "(when " \o FormulaPddlStr(f.condition) \o " " \o FormulaPddlStr(f.effect) \o ")"
      [] f.kind = "Imply" ->
            "(imply " \o FormulaPddlStr(f.antecedent) \o " " \o FormulaPddlStr(f.consequent) \o ")"
      [] f.kind = "EqualTo" ->
            LET eq_str == "(= " \o f.left.name \o " " \o f.right.name \o ")"
            IN IF f.is_negative THEN "(not " \o eq_str \o ")" ELSE eq_str

\* Operator.__eq__ and Operator.__hash__: by canonical string
OperatorEq(op1, op2) == OperatorStr(op1) = OperatorStr(op2)
OperatorHash(op) == OperatorStr(op)

is_cube == Predicate("is-cube", <<cube>>, FALSE)

\* a second type named block, and clear declared over it
other_block == Type("block", <<robot>>)
other_clear == Predicate("clear", <<other_block>>, FALSE)

\* the predicates atoms are built of, and compared
Predicates ==
    LET positive == {clear, on, is_cube, handempty, other_clear}
    IN positive \cup {get_negation(p) : p \in positive}

\* the entity sequences atoms are built of
Entities == {obj_a, obj_c, obj_r, var_b, var_c}
EntityTuples == UNION {[1..n -> Entities] : n \in 0..MaxArity}

\* the atoms compared
Atoms ==
    {r.val : r \in {r \in {NewAtom(k, pr, <<e>>) : k \in {"LiftedAtom", "GroundAtom"},
                                                  pr \in {clear, get_negation(clear), is_cube},
                                                  e \in Entities} : IsOk(r)}}
        \cup {GroundAtom(other_clear, <<Object("a", other_block)>>).val}

\* the parts operators are built of
ParameterLists == {<<>>, <<var_b>>, <<var_x>>, <<var_b, var_x>>}

Preconditions ==
    {clear_of(var_b),
     LiteralConjunction(<<clear_of(var_b), not_clear_of(var_x)>>),
     LiteralDisjunction(<<clear_of(var_b)>>),
     LiteralDisjunction(<<handempty_atom>>),
     LiteralDisjunction(<<LiteralDisjunction(<<clear_of(var_b)>>)>>),
     LiteralConjunction(<<clear_of(var_b),
                          LiteralDisjunction(<<clear_of(var_x), not_clear_of(var_b)>>)>>),
     Exists(<<var_x>>, clear_of(var_x), FALSE),
     Exists(<<var_x>>, LiteralDisjunction(<<clear_of(var_x), clear_of(var_b)>>), FALSE),
     ForAll(<<var_x>>, Imply(clear_of(var_x), clear_of(var_b)), FALSE),
     EqualTo(var_b, var_x, FALSE).val}

OperatorEffects ==
    {not_clear_of(var_b),
     LiteralConjunction(<<>>),
     LiteralConjunction(<<not_clear_of(var_b), clear_of(var_x)>>),
     ForAll(<<var_x>>, not_clear_of(var_x), FALSE),
     When(clear_of(var_x), not_clear_of(var_b)),
     EqualTo(var_b, var_b, TRUE).val}

\* the operators compared
ComparedOperators ==
    Operators \cup {NewOperator(n, <<var_b>>, clear_of(var_b), not_clear_of(var_b)).val
                    : n \in {"clear-to-dirty", "move"}}
        \cup {LET b == Variable("?b", other_block)
              IN NewOperator("clear-to-dirty", <<b>>, LiftedAtom(other_clear, <<b>>).val,
                             Not(LiftedAtom(other_clear, <<b>>).val).val).val}

\* the values handed to Not
Negatables ==
    Predicates \cup Atoms \cup {handempty_atom, Not(handempty_atom).val}
        \cup {GroundAtom(handempty, <<>>).val, GroundAtom(get_negation(handempty), <<>>).val}
        \cup {[kind |-> k, variables |-> vs, body |-> b, is_negative |-> n]
                : k \in {"ForAll", "Exists"}, vs \in {<<var_x>>, <<var_x, var_c>>},
                  b \in {clear_of(var_x), LiteralConjunction(<<clear_of(var_x), not_clear_of(var_b)>>)},
                  n \in BOOLEAN}
        \cup {EqualTo(var_b, v, n).val : v \in {var_x, var_c}, n \in BOOLEAN}
        \cup {When(clear_of(var_x), not_clear_of(var_b)),
               When(clear_of(var_x), ForAll(<<var_y>>, clear_of(var_y), FALSE)),
               Imply(clear_of(var_x), clear_of(var_y)),
               Imply(clear_of(var_x), Exists(<<var_y>>, clear_of(var_y), FALSE)),
               LiteralConjunction(<<clear_of(var_x), not_clear_of(var_y)>>),
               LiteralDisjunction(<<clear_of(var_x), Exists(<<var_y>>, clear_of(var_y), FALSE)>>),
               LiteralConjunction(<<some_clear, clear_of(var_x), same_block, not_clear_of(var_y)>>),
               LiteralConjunction(<<all_clear, some_clear>>),
               LiteralConjunction(<<>>),
               LiteralDisjunction(<<>>),
               LiteralDisjunction(<<clear_of(var_x), clear_of(var_y)>>),
               LiteralDisjunction(<<LiteralConjunction(<<clear_of(var_x)>>), not_clear_of(var_x),
                                    When(clear_of(var_x), not_clear_of(var_b))>>),
               LiteralConjunction(<<clear_of(var_x),
                                    Imply(clear_of(var_x), Exists(<<var_y>>, clear_of(var_y), FALSE))>>)}

InitData ==
    /\ state = {}
    /\ call = "none"
    /\ args = NoArgs
    /\ ret = Idle
    /\ new_state = {}
    /\ effect_todo = {}

\* Operator(name, parameters, preconditions, effects)
OperatorCall ==
    /\ call = "none"
    /\ \E parameters \in ParameterLists, pre \in Preconditions, eff \in OperatorEffects :
        /\ args' = [name |-> "op", parameters |-> parameters,
                    preconditions |-> pre, effects |-> eff]
        /\ ret' = NewOperator("op", parameters, pre, eff)
    /\ call' = "Operator"
    /\ UNCHANGED <<state, new_state, effect_todo>>

\* LiftedAtom(predicate, entities) or GroundAtom(predicate, entities)
AtomCall ==
    /\ call = "none"
    /\ \E kind \in {"LiftedAtom", "GroundAtom"}, predicate \in Predicates,
          entities \in EntityTuples :
        /\ args' = [kind |-> kind, predicate |-> predicate, entities |-> entities]
        /\ ret' = NewAtom(kind, predicate, entities)
    /\ call' = "Atom"
    /\ UNCHANGED <<state, new_state, effect_todo>>

\* left == right and hash(left) == hash(right) of two predicates
PredicateEqCall ==
    /\ call = "none"
    /\ \E left \in Predicates, right \in Predicates :
        /\ args' = [left |-> left, right |-> right]
        /\ ret' = Ok([eq |-> PredicateEq(left, right),
                      hash_eq |-> PredicateHash(left) = PredicateHash(right)])
    /\ call' = "Predicate.__eq__"
    /\ UNCHANGED <<state, new_state, effect_todo>>

\* left == right and hash(left) == hash(right) of two atoms
AtomEqCall ==
    /\ call = "none"
    /\ \E left \in Atoms, right \in Atoms :
        /\ args' = [left |-> left, right |-> right]
        /\ ret' = Ok([eq |-> AtomEq(left, right),
                      hash_eq |-> AtomHash(left) = AtomHash(right)])
    /\ call' = "_Atom.__eq__"
    /\ UNCHANGED <<state, new_state, effect_todo>>

\* left == right and hash(left) == hash(right) of two operators
OperatorEqCall ==
    /\ call = "none"
    /\ \E left \in ComparedOperators, right \in ComparedOperators :
        /\ args' = [left |-> left, right |-> right]
        /\ ret' = Ok([eq |-> OperatorEq(left, right),
                      hash_eq |-> OperatorHash(left) = OperatorHash(right)])
    /\ call' = "Operator.__eq__"
    /\ UNCHANGED <<state, new_state, effect_todo>>

\* PDDLDomain(domain_name, types, predicates, operators)
PDDLDomain(domain_name, types, predicates, operators) ==
    IF \E p \in predicates : p.is_negated THEN Raise("AssertionError")
    ELSE Ok([domain_name |-> domain_name, types |-> types, predicates |-> predicates,
             operators |-> operators])

\* Type.__hash__: hash((name, tuple(feature_names))), modelled by the tuple
\* it is computed from
TypeHash(t) == <<t.name, t.feature_names>>

\* the types compared
Types ==
    {block, cube, robot, other_block, Type("cube", None), Type("cube", <<other_block>>)}
        \cup {[t EXCEPT !.feature_names = <<"x", "y">>] : t \in {block, other_block}}

\* left == right and hash(left) == hash(right) of two types
TypeEqCall ==
    /\ call = "none"
    /\ \E left \in Types, right \in Types :
        /\ args' = [left |-> left, right |-> right]
        /\ ret' = Ok([eq |-> TypeEq(left, right),
                      hash_eq |-> TypeHash(left) = TypeHash(right)])
    /\ call' = "Type.__eq__"
    /\ UNCHANGED <<state, new_state, effect_todo>>

\* Type.get_ancestors that leaves out the type itself
RECURSIVE get_ancestors_proper(_)
get_ancestors_proper(t) ==
    IF t.parent = None THEN {} ELSE {t.parent[1]} \cup get_ancestors_proper(t.parent[1])

\* Type.get_ancestors: the set built by walking the parent chain from the
\* type itself
RECURSIVE get_ancestors(_)
get_ancestors(t) ==
    {t} \cup (IF t.parent = None THEN {} ELSE get_ancestors(t.parent[1]))

\* PDDLDomain.parent_types(type)
RECURSIVE parent_types(_, _)
parent_types(domain, type) ==
    IF type \notin domain.types THEN Raise("AssertionError")
    ELSE IF type.parent = None THEN Ok(<<type>>)
    ELSE LET p_types == parent_types(domain, type.parent[1])
         IN IF ~IsOk(p_types) THEN p_types ELSE Ok(<<type>> \o p_types.val)

\* t.get_ancestors()
GetAncestorsCall ==
    /\ call = "none"
    /\ \E t \in Types :
        /\ args' = [t |-> t]
        /\ ret' = Ok(get_ancestors(t))
    /\ call' = "get_ancestors"
    /\ UNCHANGED <<state, new_state, effect_todo>>

\* domain.parent_types(type)
ParentTypesCall ==
    /\ call = "none"
    /\ \E types \in SUBSET Types, type \in Types :
        LET domain == PDDLDomain("d", types, {}, {}).val
        IN /\ args' = [domain |-> domain, type |-> type]
           /\ ret' = parent_types(domain, type)
    /\ call' = "parent_types"
    /\ UNCHANGED <<state, new_state, effect_todo>>

\* Not(x)
NotCall ==
    /\ call = "none"
    /\ \E x \in Negatables :
        /\ args' = [x |-> x]
        /\ ret' = Not(x)
    /\ call' = "Not"
    /\ UNCHANGED <<state, new_state, effect_todo>>

NextData ==
    \/ OperatorCall
    \/ NotCall
    \/ TypeEqCall
    \/ GetAncestorsCall
    \/ ParentTypesCall
    \/ AtomCall
    \/ PredicateEqCall
    \/ AtomEqCall
    \/ OperatorEqCall
    \/ Return

SpecData == InitData /\ [][NextData]_vars

-----------------------------------------------------------------------------
(* Properties of evaluate on atoms.                                        *)

\* the objects sub gives to the variables of a lifted atom
SubstitutedObjects(f, sub) == [i \in 1..Len(f.entities) |-> sub[f.entities[i]]]

\* sub binds every variable of the atom to an object of a fitting type
WellSubstituted(f, sub) ==
    /\ Range(f.entities) \subseteq DOMAIN sub
    /\ \A i \in 1..Len(f.entities) : is_instance(sub[f.entities[i]], f.predicate.types[i])

\* world holds the positive ground atom of this predicate name and objects
HoldsPositive(world, name, objects) ==
    \E s \in world :
        /\ s.predicate.name = name
        /\ ~s.predicate.is_negated
        /\ s.entities = objects

AtomEvaluated ==
    /\ call = "evaluate"
    /\ args.formula.kind = "LiftedAtom"
    /\ WellSubstituted(args.formula, args.sub)

\* C1: a negated lifted atom evaluates true exactly when the corresponding
\* positive ground atom is absent from the state, and false when it is
\* present (closed-world reading of a negative literal).
C1_NegatedAtomClosedWorld ==
    (AtomEvaluated /\ args.formula.predicate.is_negated) =>
        /\ IsOk(ret)
        /\ ret.val = ~HoldsPositive(args.state, args.formula.predicate.name,
                                    SubstitutedObjects(args.formula, args.sub))

\* C2: a lifted atom that is not negated evaluates true exactly when the
\* ground atom sub makes of it is a member of the state; a stored atom with a
\* negated predicate never makes it true.
C2_PositiveAtomMembership ==
    (AtomEvaluated /\ ~args.formula.predicate.is_negated) =>
        /\ IsOk(ret)
        /\ ret.val = HoldsPositive(args.state, args.formula.predicate.name,
                                   SubstitutedObjects(args.formula, args.sub))

\* C2 witness: a positive atom was evaluated false in a state that stores
\* its negated twin
C2_Witness ==
    /\ AtomEvaluated
    /\ ~args.formula.predicate.is_negated
    /\ IsOk(ret) /\ ~ret.val
    /\ \E s \in args.state :
        /\ s.predicate.is_negated
        /\ s.predicate.name = args.formula.predicate.name
        /\ s.entities = SubstitutedObjects(args.formula, args.sub)

-----------------------------------------------------------------------------
(* Properties of transition.                                               *)

\* b is the negated twin of a: same name and arguments, the other flag
IsTwin(a, b) ==
    /\ a.predicate.name = b.predicate.name
    /\ a.entities = b.entities
    /\ a.predicate.is_negated # b.predicate.is_negated

\* the effect holds an atom together with its negated twin
Contradictory(effect) == \E a \in effect, b \in effect : IsTwin(a, b)

TransitionReturned == call = "transition" /\ IsOk(ret)

\* what C3 says of the returned set
TransitionResultIsStripsUpdate ==
    /\ \A e \in args.effect : e \in ret.val
    /\ \A e \in args.effect : ~\E n \in ret.val : IsTwin(e, n)
    /\ \A s \in args.curr_state :
        (s \notin args.effect /\ ~\E e \in args.effect : IsTwin(e, s)) => s \in ret.val
    /\ \A n \in ret.val : n \in args.curr_state \/ n \in args.effect

\* C3 as stated: for every state and every effect set the result holds every
\* effect atom and no twin of one, keeps every other atom of the state and
\* adds nothing else; the input set is not modified.
C3_AnyEffect ==
    /\ call = "transition" => state = args.curr_state
    /\ TransitionReturned => TransitionResultIsStripsUpdate

\* C3 amended: the same, for every effect set that does not hold an atom
\* together with its negated twin.
C3_TransitionResult ==
    /\ call = "transition" => state = args.curr_state
    /\ (TransitionReturned /\ ~Contradictory(args.effect)) => TransitionResultIsStripsUpdate

\* C3 witness: a transition returned whose effect replaced a twin stored in
\* the state and left another atom in place
C3_Witness ==
    /\ TransitionReturned
    /\ ~Contradictory(args.effect)
    /\ \E e \in args.effect, s \in args.curr_state : IsTwin(e, s)
    /\ \E s \in args.curr_state : s \in ret.val /\ s \notin args.effect

\* every order in which the for loop can visit the atoms of a set
Orders(S) == {o \in [1..Cardinality(S) -> S] : Range(o) = S}

\* C4: the result of transition does not depend on the order in which the
\* atoms of effect are processed, also for an effect that holds an atom and
\* its negated twin: every order gives the state that was returned.
C4_OrderIndependent ==
    TransitionReturned =>
        \A order \in Orders(args.effect) :
            TransitionAlong(args.curr_state, order, 1) = ret.val

-----------------------------------------------------------------------------
(* The clear-to-dirty scenario.                                            *)

clear_a == GroundAtom(clear, <<obj_a>>).val
clear_b == GroundAtom(clear, <<obj_b>>).val
not_clear_a == Not(clear_a).val
scenario_init == {clear_a, clear_b}
scenario_goal == not_clear_of(var_b)
scenario_sub == [v \in {var_b} |-> obj_a]

\* C5: grounding clear-to-dirty with a against init = {clear(a), clear(b)}
\* gives preconditions true and effects {NOT-clear(a)}; transition of init by
\* these effects gives {clear(b), NOT-clear(a)}; the goal (not (clear a)) is
\* satisfied in that state and not satisfied in init.
C5_EndToEnd ==
    /\ (call = "ground" /\ args.operator = clear_to_dirty /\ args.objects = <<obj_a>>
            /\ args.state = scenario_init) =>
        (IsOk(ret) /\ ret.val.preconditions /\ ret.val.effects = {not_clear_a})
    /\ (TransitionReturned /\ args.curr_state = scenario_init
            /\ args.effect = {not_clear_a}) =>
        ret.val = {clear_b, not_clear_a}
    /\ (call = "evaluate" /\ args.formula = scenario_goal /\ args.sub = scenario_sub
            /\ args.state = {clear_b, not_clear_a}) =>
        (IsOk(ret) /\ ret.val)
    /\ (call = "evaluate" /\ args.formula = scenario_goal /\ args.sub = scenario_sub
            /\ args.state = scenario_init) =>
        (IsOk(ret) /\ ~ret.val)

-----------------------------------------------------------------------------
(* Properties of Operator.ground and sample_ground_operator.               *)

\* the objects do not fit the parameters: another count, or an object that
\* is no instance of its parameter's type
Misfit(op, objects) ==
    \/ Len(objects) # Len(op.parameters)
    \/ \E i \in 1..Len(objects) :
        /\ objects[i].type # op.parameters[i].type
        /\ ~is_instance_from(objects[i].type.parent, op.parameters[i].type)

\* the result is the GroundOperator of op and objects whose flag is a result
\* of precondition.evaluate and whose effects are a result of effect.ground
IsGroundingOf(result, op, objects, world) ==
    LET sub == DictZip(op.parameters, objects)
    IN /\ IsOk(result)
       /\ result.val.parent = op
       /\ result.val.objects = objects
       /\ \E pre \in evaluate(op.preconditions, sub, world) :
            IsOk(pre) /\ result.val.preconditions = pre.val
       /\ \E eff \in ground(op.effects, sub, world) :
            IsOk(eff) /\ result.val.effects = eff.val

\* evaluating the precondition or grounding the effect can raise
CanRaise(op, objects, world) ==
    LET sub == DictZip(op.parameters, objects)
    IN \/ \E pre \in evaluate(op.preconditions, sub, world) : ~IsOk(pre)
       \/ \E eff \in ground(op.effects, sub, world) : ~IsOk(eff)

\* C6 as stated: Operator.ground fails with an assertion error when the
\* objects do not fit the parameters, and otherwise returns the
\* GroundOperator of the precondition's value and the grounded effect.
C6_AlwaysReturns ==
    call = "ground" =>
        IF Misfit(args.operator, args.objects) THEN ret.err = "AssertionError"
        ELSE IsGroundingOf(ret, args.operator, args.objects, args.state)

\* C6 amended: Operator.ground fails with an assertion error when the objects
\* do not fit the parameters; otherwise it returns the GroundOperator of the
\* precondition's value and the grounded effect (grounded also when the
\* precondition is false), unless evaluating the precondition or grounding
\* the effect raises, and then it raises that error.
C6_OperatorGround ==
    call = "ground" =>
        IF Misfit(args.operator, args.objects) THEN ret.err = "AssertionError"
        ELSE \/ IsGroundingOf(ret, args.operator, args.objects, args.state)
             \/ /\ CanRaise(args.operator, args.objects, args.state)
                /\ ret.err \in {"RuntimeError", "NotImplementedError", "AssertionError",
                                "ValueError", "KeyError", "AttributeError"}

\* C6 witness: an operator was grounded whose precondition is false and
\* whose effect was grounded all the same
C6_Witness ==
    /\ call = "ground"
    /\ IsOk(ret)
    /\ ~ret.val.preconditions
    /\ ret.val.effects # {}

\* how often the ground operator of this object tuple was yielded
TimesYielded(objects) ==
    Cardinality({c \in DOMAIN ret.yielded : ret.yielded[c].objects = objects})

\* the tuple gives every parameter an object of exactly its type and the
\* precondition holds under it
Applicable(op, objects, world) ==
    /\ \A i \in 1..Len(objects) : objects[i].type = op.parameters[i].type
    /\ \E pre \in evaluate(op.preconditions, DictZip(op.parameters, objects), world) :
        IsOk(pre) /\ pre.val

\* what C7 says of the ground operators yielded
YieldsTheApplicable ==
    /\ \A objects \in [1..Len(args.operator.parameters) -> args.objects] :
        TimesYielded(objects) =
            IF Applicable(args.operator, objects, args.state) THEN 1 ELSE 0
    /\ \A c \in DOMAIN ret.yielded :
        /\ ret.yielded[c].parent = args.operator
        /\ ret.yielded[c].preconditions

PairwiseDistinct(seq) == \A i, j \in 1..Len(seq) : seq[i] = seq[j] => i = j

\* C7 as stated: sample_ground_operator yields exactly one GroundOperator
\* for every assignment of pool objects of exactly the parameters' types
\* under which the precondition holds, and nothing else.
C7_AnyOperator == call = "sample" => YieldsTheApplicable

\* For an operator whose parameters are pairwise distinct variables, and a
\* run in which no grounding raises, sample_ground_operator does yield
\* exactly the applicable exact-type assignments, once each.
SampleOfDistinctParameters ==
    (call = "sample" /\ ret.err = "" /\ PairwiseDistinct(args.operator.parameters)) =>
        YieldsTheApplicable

\* a run over a pool that holds an object of a subtype yielded two or more
\* ground operators of a two-parameter operator
SampleYieldedTwo ==
    /\ call = "sample" /\ ret.err = ""
    /\ Len(args.operator.parameters) = 2
    /\ obj_c \in args.objects
    /\ Cardinality(DOMAIN ret.yielded) >= 2

-----------------------------------------------------------------------------
(* Properties of construction and comparison.                              *)

\* the free (unquantified) variables of a formula
RECURSIVE FreeVariables(_)
FreeVariables(f) ==
    CASE f.kind = "LiftedAtom" -> Range(f.entities)
      [] f.kind \in {"LiteralConjunction", "LiteralDisjunction"} ->
            UNION {FreeVariables(f.literals[i]) : i \in 1..Len(f.literals)}
      [] f.kind \in {"ForAll", "Exists"} -> FreeVariables(f.body) \ Range(f.variables)
      [] f.kind = "When" -> FreeVariables(f.condition) \cup FreeVariables(f.effect)
      [] f.kind = "Imply" -> FreeVariables(f.antecedent) \cup FreeVariables(f.consequent)
      [] f.kind = "EqualTo" -> {f.left, f.right}

\* C8: constructing an Operator succeeds exactly when every free variable of
\* its precondition and of its effect is among its parameters and its effect
\* mentions a predicate, and raises an error otherwise, whatever the variant
\* of the precondition (disjunctions included).
C8_OperatorConstruction ==
    call = "Operator" =>
        LET declared ==
                /\ FreeVariables(args.preconditions) \subseteq Range(args.parameters)
                /\ FreeVariables(args.effects) \subseteq Range(args.parameters)
            has_effect == used_predicates(args.effects) # {}
        IN IF declared /\ has_effect
           THEN /\ IsOk(ret)
                /\ ret.val = OperatorValue(args.name, args.parameters,
                                           args.preconditions, args.effects)
           ELSE ~IsOk(ret)

\* the type is t or has t in its parent chain
RECURSIVE HasInChain(_, _)
HasInChain(type, t) ==
    \/ type = t
    \/ type.parent # None /\ HasInChain(type.parent[1], t)

\* the entities fit the predicate: as many as its arity, each of the declared
\* type of its position or of a type that has it in its parent chain
Fits(predicate, entities) ==
    /\ Len(entities) = Len(predicate.types)
    /\ \A i \in 1..Len(entities) : HasInChain(entities[i].type, predicate.types[i])

\* C9: constructing a LiftedAtom or GroundAtom succeeds exactly when the
\* entities are as many as the predicate's arity and each is of the declared
\* type of its position or of a type that has it in its parent chain;
\* otherwise it raises an error and no atom is produced.
C9_AtomConstruction ==
    call = "Atom" =>
        IF Fits(args.predicate, args.entities)
        THEN ret = Ok([kind |-> args.kind, predicate |-> args.predicate,
                       entities |-> args.entities])
        ELSE ret = Raise("ValueError")

\* C9 witness: an atom was built of an entity whose type is not the declared
\* type but has it in its parent chain
C9_Witness ==
    /\ call = "Atom"
    /\ IsOk(ret)
    /\ \E i \in 1..Len(args.entities) : args.entities[i].type # args.predicate.types[i]

\* the canonical string of a compared value
CanonicalStr(x) ==
    CASE call = "Predicate.__eq__" -> PredicateStr(x)
      [] call = "_Atom.__eq__" -> AtomStr(x)
      [] call = "Operator.__eq__" -> OperatorStr(x)

\* C10: two atoms, two predicates or two operators are equal exactly when
\* their canonical strings are equal, and equal values have equal hashes; a
\* predicate and its negation are not equal.
C10_EqualityByCanonicalString ==
    call \in {"Predicate.__eq__", "_Atom.__eq__", "Operator.__eq__"} =>
        /\ ret.val.eq <=> (CanonicalStr(args.left) = CanonicalStr(args.right))
        /\ ret.val.eq => ret.val.hash_eq
        /\ (call = "Predicate.__eq__" /\ args.right = get_negation(args.left)) =>
                ~ret.val.eq

-----------------------------------------------------------------------------
(* Properties of Not.                                                      *)

\* the variants that carry a negation flag
CarriesFlag(x) ==
    IsPredicate(x) \/ x.kind \in {"LiftedAtom", "GroundAtom", "ForAll", "Exists", "EqualTo"}

\* the negation flag of a flag-carrying value
Flag(x) ==
    IF IsPredicate(x) THEN x.is_negated
    ELSE IF IsAtom(x) THEN x.predicate.is_negated
    ELSE x.is_negative

\* the value with its flag put down
Unflagged(x) ==
    IF IsPredicate(x) THEN [x EXCEPT !.is_negated = FALSE]
    ELSE IF IsAtom(x) THEN [x EXCEPT !.predicate.is_negated = FALSE]
    ELSE [x EXCEPT !.is_negative = FALSE]

\* canonical string and PDDL rendering of a negatable value
StrOf(x) ==
    IF IsPredicate(x) THEN PredicateStr(x)
    ELSE IF IsAtom(x) THEN AtomStr(x) ELSE FormulaStr(x)
PddlStrOf(x) == IF IsPredicate(x) THEN PredicatePddlStr(x) ELSE FormulaPddlStr(x)

\* C11: on Predicate, LiftedAtom, GroundAtom, ForAll, Exists and EqualTo, Not
\* changes only the negation flag (same variant, name, arguments, variables
\* and body; opposite flag); Not(Not(x)) has the canonical string and the
\* PDDL rendering of x, and Not(x) never has the canonical string of x.
C11_NotTogglesFlag ==
    (call = "Not" /\ CarriesFlag(args.x)) =>
        /\ IsOk(ret)
        /\ Unflagged(ret.val) = Unflagged(args.x)
        /\ Flag(ret.val) = ~Flag(args.x)
        /\ IsOk(Not(ret.val))
        /\ StrOf(Not(ret.val).val) = StrOf(args.x)
        /\ PddlStrOf(Not(ret.val).val) = PddlStrOf(args.x)
        /\ StrOf(ret.val) # StrOf(args.x)

\* C11 witness: Not returned the negation of a negative ForAll
C11_Witness ==
    /\ call = "Not"
    /\ ~IsPredicate(args.x)
    /\ args.x.kind = "ForAll" /\ args.x.is_negative
    /\ IsOk(ret) /\ ret.val.kind = "ForAll" /\ ~ret.val.is_negative

-----------------------------------------------------------------------------
(* Writing PDDL text (pddl_structs.py, structs.py pddl_str).  A text is    *)
(* the sequence of its tokens: "(", ")" and the words between them; the    *)
(* blanks, tabs and line ends that separate the tokens are left out.       *)

\* the tokens of a list of texts, one after the other
RECURSIVE ConcatFrom(_, _)
ConcatFrom(texts, i) ==
    IF i > Len(texts) THEN <<>> ELSE texts[i] \o ConcatFrom(texts, i + 1)
Concat(texts) == ConcatFrom(texts, 1)

\* Predicate.pddl_str
PredicateTokens(p) ==
    <<"(", p.name>>
        \o Concat([i \in 1..Len(p.types) |-> <<"?x" \o IntStr(i - 1), "-", p.types[i].name>>])
        \o <<")">>

\* _Atom.pddl_str
AtomTokens(a) ==
    IF Len(a.entities) = 0 THEN <<"(", a.predicate.name, ")">>
    ELSE LET pddl_str == <<"(", a.predicate.name>>
                            \o [i \in 1..Len(a.entities) |-> a.entities[i].name] \o <<")">>
         IN IF a.predicate.is_negated THEN <<"(", "not">> \o pddl_str \o <<")">> ELSE pddl_str

\* "?v - type" of each variable
TypedListTokens(variables) ==
    Concat([i \in 1..Len(variables) |-> <<variables[i].name, "-", variables[i].type.name>>])

\* pddl_str of each variant
RECURSIVE FormulaTokens(_)
FormulaTokens(f) ==
    CASE f.kind \in {"LiftedAtom", "GroundAtom"} -> AtomTokens(f)
      [] f.kind \in {"LiteralConjunction", "LiteralDisjunction"} ->
            IF Len(f.literals) = 1 THEN FormulaTokens(f.literals[1])
            ELSE <<"(", IF f.kind = "LiteralConjunction" THEN "and" ELSE "or">>
                    \o Concat([i \in 1..Len(f.literals) |-> FormulaTokens(f.literals[i])])
                    \o <<")">>
      [] f.kind \in {"ForAll", "Exists"} ->
            LET quantified ==
                    <<"(", IF f.kind = "ForAll" THEN "forall" ELSE "exists", "(">>
                        \o TypedListTokens(f.variables) \o <<")">>
                        \o FormulaTokens(f.body) \o <<")">>
            IN IF f.is_negative THEN <<"(", "not">> \o quantified \o <<")">> ELSE quantified
      [] f.kind = "When" ->
            <<"(", "when">> \o FormulaTokens(f.condition) \o FormulaTokens(f.effect) \o <<")">>
      [] f.kind = "Imply" ->
            <<"(", "imply">> \o FormulaTokens(f.antecedent) \o FormulaTokens(f.consequent)
                \o <<")">>
      [] f.kind = "EqualTo" ->
            LET eq_str == <<"(", "=", f.left.name, f.right.name, ")">>
            IN IF f.is_negative THEN <<"(", "not">> \o eq_str \o <<")">> ELSE eq_str

\* Operator.pddl_str
OperatorTokens(op) ==
    <<"(", ":action", op.name, ":parameters", "(">> \o TypedListTokens(op.parameters)
        \o <<")", ":precondition">> \o FormulaTokens(op.preconditions)
        \o <<":effect">> \o FormulaTokens(op.effects) \o <<")">>

\* PDDLDomain._types_pddl_str, the types taken in the order given
types_pddl_str(types) ==
    Concat([i \in 1..Len(types) |->
                IF types[i].parent # None THEN <<types[i].name, "-", types[i].parent[1].name>>
                ELSE <<types[i].name>>])

\* the requirements PDDLDomain.to_string always writes
requirements ==
    <<":strips", ":typing", ":universal-preconditions", ":negative-preconditions",
      ":disjunctive-preconditions", ":existential-preconditions", ":conditional-effects">>

\* PDDLDomain.to_string: one text for each order in which the sets of types,
\* predicates and operators can be iterated
to_string(domain) ==
    {LET operators == Concat([i \in 1..Len(os) |-> OperatorTokens(os[i])])
     IN <<"(", "define", "(", "domain", domain.domain_name, ")">>
            \o <<"(", ":requirements">> \o requirements
            \o (IF "=" \in Range(operators) THEN <<":equality">> ELSE <<>>) \o <<")">>
            \o <<"(", ":types">> \o types_pddl_str(ts) \o <<")">>
            \o <<"(", ":predicates">>
            \o Concat([i \in 1..Len(ps) |-> PredicateTokens(ps[i])]) \o <<")">>
            \o operators \o <<")">>
     : ts \in Orders(domain.types), ps \in Orders(domain.predicates),
       os \in Orders(domain.operators)}

-----------------------------------------------------------------------------
(* Reading PDDL text (string_utils.py, structs_parser.py,                  *)
(* pddl_structs_parser.py).  The texts read carry no comment, and their    *)
(* words are kept apart by blanks; what the code asks of the characters    *)
(* of a word is answered from the tables below.                            *)

\* ALL_SYMBOLS: the words is_a_keyword accepts
ALL_SYMBOLS ==
    {"(", ")", "-", "=", ":action", "and", ":constants", "define", ":derived", "domain",
     ":domain", ":effect", "either", "exists", "forall", ":goal", "imply", ":init", "not",
     "object", ":objects", "oneof", "or", ":parameters", ":precondition", ":predicates",
     "problem", ":requirements", ":types", ":metric", "when", ">=", ">", "<=", "<", "+", "*",
     "/", "assign", "scale-up", "scale-down", "increase", "decrease", "maximize", "minimize",
     "total-cost"}
is_a_keyword(word) == word \in ALL_SYMBOLS

\* the words that begin with "?" and go on with a name
VariableWords == {"?b", "?x", "?y", "?c", "?x0", "?x1"}
\* the words that begin with ":" and go on with a name
SectionWords ==
    {w \in ALL_SYMBOLS : w \in {":action", ":constants", ":derived", ":domain", ":effect",
                                ":goal", ":init", ":objects", ":parameters", ":precondition",
                                ":predicates", ":requirements", ":types", ":metric"}}
        \cup {":functions"} \cup Range(requirements)
\* the words that match [a-zA-Z0-9-_]+ (name_rgx)
IsName(word) ==
    word \notin VariableWords \cup SectionWords
                \cup {"(", ")", "=", ">=", ">", "<=", "<", "+", "*", "/"}
\* the words that hold a "-"
HasHyphen(word) ==
    word \in {"-", "is-cube", "clear-to-dirty", "Clear-To-Dirty", "lift-cube", "scale-up", "scale-down",
              "total-cost"}

\* s.count(word)
Count(s, word) == Cardinality({i \in 1..Len(s) : s[i] = word})

\* a search for the closing parenthesis that does not count the opening
\* ones in between
RECURSIVE ClosingFromFirst(_, _, _)
ClosingFromFirst(s, i, n_closing_parenthesis_to_skip) ==
    IF i > Len(s) THEN 0
    ELSE IF s[i] = ")" THEN i
    ELSE ClosingFromFirst(s, i + 1, n_closing_parenthesis_to_skip)

\* until_next_closing_parenthesis: the index of the closing parenthesis of
\* the group opened at s[1], found by counting the parentheses to skip; 0 if
\* there is none
RECURSIVE ClosingFrom(_, _, _)
ClosingFrom(s, i, n_closing_parenthesis_to_skip) ==
    IF i > Len(s) THEN 0
    ELSE IF s[i] = "("
         THEN ClosingFrom(s, i + 1, n_closing_parenthesis_to_skip + 1)
    ELSE IF s[i] = ")"
         THEN IF n_closing_parenthesis_to_skip = 0 THEN i
              ELSE ClosingFrom(s, i + 1, n_closing_parenthesis_to_skip - 1)
    ELSE ClosingFrom(s, i + 1, n_closing_parenthesis_to_skip)

\* until_next_closing_parenthesis(s): <<before_closing, after_closing>>
until_next_closing_parenthesis(s) ==
    IF s = <<>> THEN Raise("IndexError")
    ELSE IF s[1] # "(" THEN Raise("ValueError")
    ELSE LET closing == ClosingFrom(s, 2, 0)
         IN IF closing = 0 THEN Raise("ValueError")
            ELSE Ok(<<SubSeq(s, 1, closing), SubSeq(s, closing + 1, Len(s))>>)

\* the loop of parentheses_groups: the groups yielded, and the exception the
\* generator raises after them ("" if it ends)
RECURSIVE GroupsFrom(_)
GroupsFrom(s) ==
    IF s = <<>> THEN [groups |-> <<>>, err |-> ""]
    ELSE LET next == until_next_closing_parenthesis(s)
         IN IF ~IsOk(next) THEN [groups |-> <<>>, err |-> next.err]
            ELSE LET rest == GroupsFrom(next.val[2])
                 IN [groups |-> <<next.val[1]>> \o rest.groups, err |-> rest.err]

\* parentheses_groups(s)
parentheses_groups(s) ==
    IF s = <<>> THEN [groups |-> <<>>, err |-> "IndexError"]
    ELSE IF ~(s[1] = "(" /\ s[Len(s)] = ")") THEN [groups |-> <<>>, err |-> "AssertionError"]
    ELSE GroupsFrom(s)


\* Object.__post_init__ and Variable.__post_init__: the name of an Object
\* does not start with "?", the name of a Variable does
NewObject(name, type) ==
    IF name \in VariableWords THEN Raise("AssertionError") ELSE Ok(Object(name, type))
NewVariable(name, type) ==
    IF name \notin VariableWords THEN Raise("AssertionError") ELSE Ok(Variable(name, type))

\* parse_type(type_str)
parse_type(type_str) ==
    IF type_str = "object" THEN Raise("ValueError")
    ELSE IF is_a_keyword(type_str) THEN Raise("ValueError")
    ELSE Ok(Type(type_str, None))

\* the index of the first "-" of s at or after i; 0 if there is none
RECURSIVE HyphenFrom(_, _)
HyphenFrom(s, i) ==
    IF i > Len(s) THEN 0 ELSE IF s[i] = "-" THEN i ELSE HyphenFrom(s, i + 1)

\* re.findall(r"([^-]+)-\s*(\w+)", s) from token i on: each match is the
\* words before a "-" and the word after it (the names of the texts read
\* hold no "-" of their own); a "-" that nothing precedes or that no name
\* follows is passed over; the lists read hold no parenthesis
RECURSIVE TypedMatchesFrom(_, _)
TypedMatchesFrom(s, i) ==
    LET k == HyphenFrom(s, i)
    IN IF k = 0 THEN <<>>
       ELSE IF (k > i \/ i > 1) /\ k < Len(s) /\ IsName(s[k + 1]) /\ s[k + 1] # "-"
            THEN <<[names |-> SubSeq(s, i, k - 1), super |-> s[k + 1], first |-> i,
                    last |-> k + 1]>> \o TypedMatchesFrom(s, k + 2)
       ELSE TypedMatchesFrom(s, k + 1)
TypedMatches(s) == TypedMatchesFrom(s, 1)

\* the first exception among results ("" if none raised)
FirstError(results) ==
    IF \A i \in 1..Len(results) : IsOk(results[i]) THEN ""
    ELSE results[CHOOSE i \in 1..Len(results) :
                    ~IsOk(results[i]) /\ \A j \in 1..(i - 1) : IsOk(results[j])].err

\* the untyped names of parse_types, each appended unless a type of that
\* name is already in the list
RECURSIVE AppendUntyped(_, _, _)
AppendUntyped(types, untyped_names, i) ==
    IF i > Len(untyped_names) THEN types
    ELSE AppendUntyped(
            IF \E j \in 1..Len(types) : types[j].name = untyped_names[i] THEN types
            ELSE Append(types, Type(untyped_names[i], None)),
            untyped_names, i + 1)

\* parse_types(content_str)
parse_types(content_str) ==
    LET typed_matches == TypedMatches(content_str)
        supers == [m \in 1..Len(typed_matches) |-> parse_type(typed_matches[m].super)]
        typed == Concat([m \in 1..Len(typed_matches) |->
                    [n \in 1..Len(typed_matches[m].names) |->
                        Type(typed_matches[m].names[n], <<supers[m].val>>)]])
        matched == UNION {typed_matches[m].first .. typed_matches[m].last
                            : m \in 1..Len(typed_matches)}
        remaining == SelectSeq([i \in 1..Len(content_str) |-> [word |-> content_str[i], at |-> i]],
                               LAMBDA w : w.at \notin matched)
        untyped_names == [i \in 1..Len(remaining) |-> remaining[i].word]
    IN IF FirstError(supers) # "" THEN Raise(FirstError(supers))
       ELSE Ok(AppendUntyped(typed, untyped_names, 1))

\* parse_objects(content_str)
parse_objects(content_str) ==
    LET obj_groups == TypedMatches(content_str)
        obj_type(m) == parse_type(obj_groups[m].super)
        objects(m) == [n \in 1..Len(obj_groups[m].names) |->
                        NewObject(obj_groups[m].names[n], obj_type(m).val)]
        parsed == [m \in 1..Len(obj_groups) |->
                    IF ~IsOk(obj_type(m)) THEN obj_type(m)
                    ELSE IF FirstError(objects(m)) # "" THEN Raise(FirstError(objects(m)))
                    ELSE Ok([n \in 1..Len(objects(m)) |-> objects(m)[n].val])]
    IN IF FirstError(parsed) # "" THEN Raise(FirstError(parsed))
       ELSE Ok(Concat([m \in 1..Len(obj_groups) |-> parsed[m].val]))


\* An argument read from a text: its word and, for "word - type", the word
\* of the type (a sequence of length 0 or 1).
Argument(word, type_word) == [word |-> word, type_word |-> type_word]

\* parse_variable(variables_str, variable_type)
parse_variable(variables_str, variable_type) ==
    LET parsed == IF variables_str.type_word # <<>> THEN parse_type(variables_str.type_word[1])
                  ELSE Ok(None)
        type == IF variables_str.type_word # <<>> THEN <<parsed.val>> ELSE variable_type
    IN IF ~IsOk(parsed) THEN parsed
       ELSE IF type = None THEN Raise("ValueError")
       ELSE IF is_a_keyword(variables_str.word) THEN Raise("ValueError")
       ELSE NewVariable(variables_str.word, type[1])

\* parse_object(constant_str, constant_type)
parse_object(constant_str, constant_type) ==
    LET parsed == IF constant_str.type_word # <<>> THEN parse_type(constant_str.type_word[1])
                  ELSE Ok(None)
        type == IF constant_str.type_word # <<>> THEN <<parsed.val>> ELSE constant_type
    IN IF ~IsOk(parsed) THEN parsed
       ELSE IF type = None THEN Raise("ValueError")
       ELSE IF is_a_keyword(constant_str.word) THEN Raise("ValueError")
       ELSE NewObject(constant_str.word, type[1])

\* the index of the first variable word of s at or after i; Len(s) + 1 if
\* there is none
RECURSIVE VariableFrom(_, _)
VariableFrom(s, i) ==
    IF i > Len(s) THEN Len(s) + 1
    ELSE IF s[i] \in VariableWords THEN i ELSE VariableFrom(s, i + 1)

\* re.findall(r"(?:\?.+? +)+\- +[\w\W]+?(?=(?:\?|$))", s) from token i on:
\* a match runs from a variable word over the first "-" after it up to the
\* next variable word that has a word between the "-" and itself
RECURSIVE VarSetsFrom(_, _)
VarSetsFrom(s, i) ==
    LET p == VariableFrom(s, i)
        k == HyphenFrom(s, p + 1)
        q == VariableFrom(s, k + 2)
    IN IF p > Len(s) \/ k = 0 \/ k = Len(s) THEN <<>>
       ELSE <<SubSeq(s, p, q - 1)>> \o VarSetsFrom(s, q)

\* one var_set of parse_variable_definitions: "names - type"
VarSetVariables(var_set) ==
    LET k == HyphenFrom(var_set, 1)
        var_type == Join(SubSeq(var_set, k + 1, Len(var_set)), " ")
        type == parse_type(var_type)
        names == SubSeq(var_set, 1, k - 1)
        variables == [n \in 1..Len(names) |->
                        parse_variable(Argument(names[n], <<>>), <<type.val>>)]
    IN IF Count(var_set, "-") # 1 THEN Raise("ValueError")
       ELSE IF names = <<>> THEN Ok(<<>>)
       ELSE IF ~IsOk(type) THEN type
       ELSE IF FirstError(variables) # "" THEN Raise(FirstError(variables))
       ELSE Ok([n \in 1..Len(names) |-> variables[n].val])

\* parse_variable_definitions(variables_str)
parse_variable_definitions(variables_str) ==
    LET var_sets == VarSetsFrom(variables_str, 1)
        parsed == [m \in 1..Len(var_sets) |-> VarSetVariables(var_sets[m])]
        variables == Concat([m \in 1..Len(var_sets) |-> parsed[m].val])
        n_vars == Cardinality({i \in 1..Len(variables_str) : variables_str[i] \in VariableWords})
    IN IF FirstError(parsed) # "" THEN Raise(FirstError(parsed))
       ELSE IF Len(variables) # n_vars THEN Raise("ValueError")
       ELSE Ok(variables)

\* re.findall(rf"\??{name_rgx}(?: \- {name_rgx})?", predicate_args) from
\* token i on
RECURSIVE PredicateArgsFrom(_, _)
PredicateArgsFrom(s, i) ==
    IF i > Len(s) THEN <<>>
    ELSE IF ~(s[i] \in VariableWords \/ IsName(s[i])) THEN PredicateArgsFrom(s, i + 1)
    ELSE IF i + 2 <= Len(s) /\ s[i + 1] = "-" /\ IsName(s[i + 2])
         THEN <<Argument(s[i], <<s[i + 2]>>)>> \o PredicateArgsFrom(s, i + 3)
    ELSE <<Argument(s[i], <<>>)>> \o PredicateArgsFrom(s, i + 1)

\* the known predicate of the given name, if any (a sequence of length 0
\* or 1); the sets of known predicates read against hold one predicate of
\* a name
KnownByName(known_predicates, predicate_name) ==
    IF \E p \in known_predicates : p.name = predicate_name
    THEN <<CHOOSE p \in known_predicates : p.name = predicate_name>>
    ELSE None

NamedPredicate(name, variables) ==
    [kind |-> "NamedPredicate", name |-> name, variables |-> variables,
     types |-> [i \in 1..Len(variables) |-> variables[i].type], is_negated |-> FALSE]

\* parse_predicate(predicate_str, known_predicates=...)
parse_predicate(predicate_str, known_predicates) ==
    IF predicate_str = <<>> THEN Raise("IndexError")
    ELSE IF ~(predicate_str[1] = "(" /\ predicate_str[Len(predicate_str)] = ")")
         THEN Raise("AssertionError")
    ELSE IF ~(Count(predicate_str, "(") = 1 /\ Count(predicate_str, ")") = 1)
         THEN Raise("AssertionError")
    ELSE IF ~IsName(predicate_str[2]) THEN Raise("ValueError")
    ELSE LET predicate_name == predicate_str[2]
             predicate_args ==
                PredicateArgsFrom(SubSeq(predicate_str, 3, Len(predicate_str) - 1), 1)
             predicate == KnownByName(known_predicates, predicate_name)
             existing_types ==
                IF predicate # None
                THEN [i \in 1..Len(predicate[1].types) |-> <<predicate[1].types[i]>>]
                ELSE [i \in 1..Len(predicate_args) |-> None]
             variables ==
                [i \in 1..MinOf(Len(predicate_args), Len(existing_types)) |->
                    parse_variable(predicate_args[i], existing_types[i])]
         IN IF \E i \in 1..Len(predicate_args) : predicate_args[i].word \notin VariableWords
            THEN Raise("ValueError")
            ELSE IF is_a_keyword(predicate_name) THEN Raise("ValueError")
            ELSE IF predicate = None /\ Len(predicate_args) > 0
                    /\ ~(\E i \in 1..Len(predicate_str) : HasHyphen(predicate_str[i]))
                 THEN Raise("ValueError")
            ELSE IF FirstError(variables) # "" THEN Raise(FirstError(variables))
            ELSE Ok(NamedPredicate(predicate_name,
                                   [i \in 1..Len(variables) |-> variables[i].val]))

\* parse_lifted_atom(lifted_atom_str, known_predicates=...)
parse_lifted_atom(lifted_atom_str, known_predicates) ==
    LET predicate == parse_predicate(lifted_atom_str, known_predicates)
    IN IF ~IsOk(predicate) THEN predicate
       ELSE LiftedAtom(Predicate(predicate.val.name, predicate.val.types,
                                 predicate.val.is_negated),
                       predicate.val.variables)

\* _parse_ground_atom(ground_atom_str, known_predicates=...)
_parse_ground_atom(ground_atom_str, known_predicates) ==
    IF ground_atom_str = <<>> THEN Raise("IndexError")
    ELSE IF ~(ground_atom_str[1] = "(" /\ ground_atom_str[Len(ground_atom_str)] = ")")
         THEN Raise("AssertionError")
    ELSE IF ~(Count(ground_atom_str, "(") = 1 /\ Count(ground_atom_str, ")") = 1)
         THEN Raise("AssertionError")
    ELSE IF ~IsName(ground_atom_str[2]) THEN Raise("ValueError")
    ELSE LET predicate_name == ground_atom_str[2]
             predicate_args == SubSeq(ground_atom_str, 3, Len(ground_atom_str) - 1)
             predicate == KnownByName(known_predicates, predicate_name)
             objects ==
                [i \in 1..MinOf(Len(predicate_args), Len(predicate[1].types)) |->
                    parse_object(Argument(predicate_args[i], <<>>), <<predicate[1].types[i]>>)]
         IN IF predicate = None THEN Raise("ValueError")
            ELSE IF FirstError(objects) # "" THEN Raise(FirstError(objects))
            ELSE GroundAtom(predicate[1], [i \in 1..Len(objects) |-> objects[i].val])


\* the words that match [a-zA-Z0-9_\-\=]+
IsFormulaName(word) == IsName(word) \/ word = "="

\* a set or frozenset of ground atoms, as parse_formula returns it for a
\* ground formula
AtomSet(kind, atoms) == [kind |-> kind, atoms |-> atoms]

\* "variables_str, conditions_str = parentheses_groups(...)"
Unpack2(generated) ==
    IF generated.err # "" THEN Raise(generated.err)
    ELSE IF Len(generated.groups) # 2 THEN Raise("ValueError")
    ELSE Ok(generated.groups)

\* the branch of parse_formula for "=": every term is looked up among the
\* variables in scope
ParseEqualTo(formula_content, variables) ==
    LET named(term_name) == {i \in 1..Len(variables) : variables[i].name = term_name}
        \* a dict keeps the last variable of a name
        by_name(term_name) == variables[CHOOSE i \in named(term_name) :
                                            \A j \in named(term_name) : j <= i]
        terms == [i \in 1..Len(formula_content) |-> by_name(formula_content[i])]
    IN IF formula_content = <<>> THEN Raise("AttributeError")
       ELSE IF \E i \in 1..Len(formula_content) : named(formula_content[i]) = {}
            THEN Raise("AssertionError")
       ELSE IF Len(terms) = 2 THEN EqualTo(terms[1], terms[2], FALSE)
       ELSE IF Len(terms) = 3 THEN EqualTo(terms[1], terms[2], TRUE)
       ELSE Raise("TypeError")

RECURSIVE parse_formula(_, _, _, _, _)

\* the branch of parse_formula for "exists" and "forall"
ParseQuantified(formula_name, formula_content, known_predicates, variables, unsupported_formulas) ==
    LET Quantify(parsed_variables, conditions) ==
            IF ~IsOk(conditions) THEN conditions
            ELSE IF formula_name = "forall" THEN Ok(ForAll(parsed_variables, conditions.val, FALSE))
            ELSE Ok(Exists(parsed_variables, conditions.val, FALSE))
        ReadConditions(parsed_variables, conditions_str) ==
            IF ~IsOk(parsed_variables) THEN parsed_variables
            ELSE Quantify(parsed_variables.val,
                          parse_formula(conditions_str, TRUE, known_predicates,
                                        variables \o parsed_variables.val,
                                        unsupported_formulas))
        ReadVariables(groups) ==
            IF ~IsOk(groups) THEN groups
            ELSE ReadConditions(parse_variable_definitions(
                                SubSeq(groups.val[1], 2, Len(groups.val[1]) - 1)),
                             groups.val[2])
    IN IF formula_content = <<>> THEN Raise("AttributeError")
       ELSE ReadVariables(Unpack2(parentheses_groups(formula_content)))

\* the branch of parse_formula for the other keywords: the terms are parsed
\* one by one as parentheses_groups yields them, and an AssertionError
\* among them is raised again as ValueError
ParseConnective(formula_str, formula_name, formula_content, only_variables, known_predicates, variables, unsupported_formulas) ==
    LET generated == IF formula_content = <<>> THEN [groups |-> <<>>, err |-> ""]
                     ELSE parentheses_groups(formula_content)
        Connect(terms) ==
            IF formula_name = "and"
                 THEN IF only_variables THEN Ok(LiteralConjunction(terms))
                      ELSE IF \E i \in 1..Len(terms) : terms[i].kind \notin {"set", "frozenset"}
                           THEN Raise("TypeError")
                      ELSE Ok(AtomSet("set", UNION {terms[i].atoms : i \in 1..Len(terms)}))
            ELSE IF formula_name = "or"
                 THEN IF ~only_variables THEN Raise("AssertionError")
                      ELSE Ok(LiteralDisjunction(terms))
            ELSE IF formula_name = "not"
                 THEN IF Len(terms) # 1 THEN Raise("ValueError")
                      ELSE IF terms[1].kind = "set"
                           THEN LET negated == {Not(t) : t \in terms[1].atoms}
                                IN IF \E r \in negated : ~IsOk(r)
                                   THEN CHOOSE r \in negated : ~IsOk(r)
                                   ELSE Ok(AtomSet("set", {r.val : r \in negated}))
                      ELSE IF terms[1].kind = "frozenset" THEN Raise("ValueError")
                      ELSE Not(terms[1])
            ELSE IF formula_name = "when"
                 THEN IF ~only_variables THEN Raise("AssertionError")
                      ELSE IF Len(terms) < 2 THEN Raise("IndexError")
                      ELSE Ok(When(terms[1], terms[2]))
            ELSE IF formula_name = "imply"
                 THEN IF ~only_variables THEN Raise("AssertionError")
                      ELSE IF Len(terms) # 2 THEN Raise("TypeError")
                      ELSE Ok(Imply(terms[1], terms[2]))
            ELSE Raise("ValueError")
        Raised(parsed, raised) ==
            IF raised = "AssertionError" THEN Raise("ValueError")
            ELSE IF raised # "" THEN Raise(raised)
            ELSE Connect([i \in 1..Len(parsed) |-> parsed[i].val])
        Parsed(parsed) ==
            Raised(parsed, IF FirstError(parsed) # "" THEN FirstError(parsed) ELSE generated.err)
    IN Parsed([i \in 1..Len(generated.groups) |->
                parse_formula(generated.groups[i], only_variables, known_predicates,
                              variables, unsupported_formulas)])

\* parse_formula(formula_str, only_variables, known_predicates=...,
\* variables=..., unsupported_formulas=...)
parse_formula(formula_str, only_variables, known_predicates, variables, unsupported_formulas) ==
    IF formula_str = <<>> THEN Raise("IndexError")
    ELSE IF ~(formula_str[1] = "(" /\ formula_str[Len(formula_str)] = ")")
         THEN Raise("AssertionError")
    ELSE IF formula_str \in {<<"(", ")">>, <<"(", "and", ")">>}
         THEN Ok(IF only_variables THEN LiteralConjunction(<<>>)
                 ELSE AtomSet("frozenset", {}))
    ELSE IF ~IsFormulaName(formula_str[2]) THEN Raise("ValueError")
    ELSE LET formula_name == formula_str[2]
             formula_content == SubSeq(formula_str, 3, Len(formula_str) - 1)
         IN IF formula_name \in unsupported_formulas THEN Raise("ValueError")
            ELSE IF is_a_keyword(formula_name)
                 THEN IF formula_name \in {"exists", "forall"}
                      THEN ParseQuantified(formula_name, formula_content, known_predicates,
                                           variables, unsupported_formulas)
                      ELSE IF formula_name = "="
                           THEN ParseEqualTo(formula_content, variables)
                      ELSE ParseConnective(formula_str, formula_name, formula_content,
                                           only_variables, known_predicates, variables,
                                           unsupported_formulas)
            ELSE IF only_variables THEN parse_lifted_atom(formula_str, known_predicates)
            ELSE LET atom == _parse_ground_atom(formula_str, known_predicates)
                 IN IF ~IsOk(atom) THEN atom ELSE Ok(AtomSet("set", {atom.val}))


\* the index of the last ")" of s; 0 if there is none
LastClosing(s) ==
    IF Count(s, ")") = 0 THEN 0
    ELSE CHOOSE i \in 1..Len(s) : s[i] = ")" /\ \A j \in (i + 1)..Len(s) : s[j] # ")"

\* the loop of parse_operator over ":parameters (...)", ":precondition
\* (...)" and ":effect (...)"; parsed holds what was read so far, each a
\* sequence of length 0 (None) or 1
RECURSIVE OperatorParts(_, _, _)
OperatorParts(after_group, known_predicates, parsed) ==
    IF after_group = <<>> THEN Ok(parsed)
    ELSE IF ~(after_group[1] \in SectionWords /\ Len(after_group) > 1) THEN Raise("ValueError")
    ELSE LET var_type == after_group[1]
             variables == IF parsed.parameters = None THEN <<>> ELSE parsed.parameters[1]
             \* the part read, stored under its key, and the loop goes on
             Store(part, after_closing, key) ==
                IF ~IsOk(part) THEN part
                ELSE OperatorParts(after_closing, known_predicates,
                                   [parsed EXCEPT ![key] = <<part.val>>])
             Read(var_content, after_closing) ==
                IF var_type = ":parameters"
                THEN Store(parse_variable_definitions(SubSeq(var_content, 2, Len(var_content) - 1)),
                           after_closing, "parameters")
                ELSE IF var_type = ":precondition"
                THEN Store(parse_formula(var_content, TRUE, known_predicates, variables, {}),
                           after_closing, "preconditions")
                ELSE IF var_type = ":effect"
                THEN Store(parse_formula(var_content, TRUE, known_predicates, variables,
                                         {"or", "exists"}),
                           after_closing, "effects")
                ELSE Raise("ValueError")
             Split(split) == IF ~IsOk(split) THEN split ELSE Read(split.val[1], split.val[2])
         IN Split(until_next_closing_parenthesis(Tail(after_group)))

\* parse_operator(operator_str, known_predicates=...)
parse_operator(operator_str, known_predicates) ==
    LET closing == LastClosing(operator_str)
        Build(parts) ==
            IF ~IsOk(parts) THEN parts
            ELSE IF parts.val.parameters = None THEN Raise("ValueError")
            ELSE IF parts.val.preconditions = None THEN Raise("ValueError")
            ELSE IF parts.val.effects = None THEN Raise("ValueError")
            ELSE NewOperator(operator_str[3], parts.val.parameters[1],
                             parts.val.preconditions[1], parts.val.effects[1])
    IN IF ~(Len(operator_str) >= 5 /\ closing >= 5 /\ operator_str[1] = "("
            /\ operator_str[2] = ":action" /\ IsName(operator_str[3]))
       THEN Raise("ValueError")
       ELSE Build(OperatorParts(SubSeq(operator_str, 4, closing - 1), known_predicates,
                                [parameters |-> None, preconditions |-> None,
                                 effects |-> None]))

\* the text between "(define (<what> <name>)" and the last ")", as
\* parse_domain and parse_problem match it
DefineContent(str, what) ==
    LET closing == LastClosing(str)
    IN IF Len(str) >= 8 /\ closing >= 8 /\ SubSeq(str, 1, 4) = <<"(", "define", "(", what>>
          /\ IsName(str[5]) /\ str[6] = ")"
       THEN Ok(SubSeq(str, 7, closing - 1))
       ELSE Raise("ValueError")

\* a call parse_predicate(predicate_str, **keywords): a keyword that names
\* no parameter of parse_predicate is a TypeError
CallParsePredicate(predicate_str, keywords) ==
    IF ~(DOMAIN keywords \subseteq {"known_predicates"}) THEN Raise("TypeError")
    ELSE parse_predicate(predicate_str,
                         IF "known_predicates" \in DOMAIN keywords
                         THEN keywords.known_predicates ELSE {})

\* the loop of parse_domain over the predicates of the :predicates section
RECURSIVE DomainPredicates(_, _, _)
DomainPredicates(generated, i, predicates) ==
    IF i > Len(generated.groups)
    THEN IF generated.err # "" THEN Raise(generated.err) ELSE Ok(predicates)
    ELSE LET lifted_atom == CallParsePredicate(generated.groups[i], [only_variables |-> TRUE])
         IN IF ~IsOk(lifted_atom) THEN lifted_atom
            ELSE IF lifted_atom.val.kind # "LiftedAtom" THEN Raise("AssertionError")
            ELSE DomainPredicates(generated, i + 1, predicates \cup {lifted_atom.val.predicate})

\* the loop of parse_domain over the sections of the domain
RECURSIVE DomainSections(_, _, _)
DomainSections(generated, i, parsed) ==
    IF i > Len(generated.groups)
    THEN IF generated.err # "" THEN Raise(generated.err) ELSE Ok(parsed)
    ELSE LET next_group == generated.groups[i]
             section_type == next_group[2]
             section_content == SubSeq(next_group, 3, Len(next_group) - 1)
             \* the section read, stored under its key, and the loop goes on
             Store(section, key) ==
                IF ~IsOk(section) THEN section
                ELSE DomainSections(generated, i + 1,
                        [parsed EXCEPT ![key] = IF key = "operators"
                                                THEN Append(@, section.val) ELSE section.val])
         IN IF section_type \notin SectionWords THEN Raise("AssertionError")
            ELSE IF section_type = ":requirements" THEN Store(Ok(parsed.types), "types")
            ELSE IF section_type = ":types" THEN Store(parse_types(section_content), "types")
            ELSE IF section_type = ":predicates"
                 THEN Store(DomainPredicates(parentheses_groups(section_content), 1,
                                             parsed.predicates), "predicates")
            ELSE IF section_type = ":action"
                 THEN IF parsed.predicates = {} THEN Raise("AssertionError")
                      ELSE Store(parse_operator(next_group, parsed.predicates), "operators")
            ELSE Raise("ValueError")

\* parse_domain(domain_str)
parse_domain(domain_str) ==
    LET domain_content == DefineContent(domain_str, "domain")
        Build(parsed) ==
            IF ~IsOk(parsed) THEN parsed
            ELSE PDDLDomain(domain_str[5], Range(parsed.val.types), parsed.val.predicates,
                            Range(parsed.val.operators))
    IN IF ~IsOk(domain_content) THEN domain_content
       ELSE Build(DomainSections(parentheses_groups(domain_content.val), 1,
                                 [types |-> <<>>, predicates |-> {}, operators |-> <<>>]))


\* PDDLProblem(problem_name, domain_name, objects, init, goal); goal is a
\* sequence of length 0 (None) or 1
PDDLProblem(problem_name, domain_name, objects, init, goal) ==
    IF goal # None /\ goal[1].kind \notin {"frozenset", "GroundAtom"} THEN Raise("ValueError")
    ELSE Ok([problem_name |-> problem_name, domain_name |-> domain_name,
             objects |-> objects, init |-> init, goal |-> goal])

\* the loop of parse_problem over the facts of the :init section
RECURSIVE ProblemFacts(_, _, _, _)
ProblemFacts(generated, i, known_predicates, init_facts) ==
    IF i > Len(generated.groups)
    THEN IF generated.err # "" THEN Raise(generated.err) ELSE Ok(init_facts)
    ELSE LET Add(fact_atom) ==
                IF ~IsOk(fact_atom) THEN fact_atom
                ELSE IF fact_atom.val.kind # "GroundAtom" THEN Raise("AssertionError")
                ELSE ProblemFacts(generated, i + 1, known_predicates,
                                  init_facts \cup {fact_atom.val})
         IN Add(parse_formula(generated.groups[i], FALSE, known_predicates, <<>>, {}))

\* the loop of parse_problem over the sections of the problem
RECURSIVE ProblemSections(_, _, _, _)
ProblemSections(generated, i, domain, parsed) ==
    IF i > Len(generated.groups)
    THEN IF generated.err # "" THEN Raise(generated.err) ELSE Ok(parsed)
    ELSE LET next_group == generated.groups[i]
             section_type == next_group[2]
             section_content == SubSeq(next_group, 3, Len(next_group) - 1)
             \* the section read, stored under its key, and the loop goes on
             Store(section, key) ==
                IF ~IsOk(section) THEN section
                ELSE ProblemSections(generated, i + 1, domain,
                        [parsed EXCEPT ![key] = IF key \in {"domain_name", "goal"}
                                                THEN <<section.val>> ELSE section.val])
         IN IF section_type \notin SectionWords THEN Raise("AssertionError")
            ELSE IF section_type = ":domain"
                 THEN Store(Ok(Join(section_content, " ")), "domain_name")
            ELSE IF section_type = ":objects" /\ section_content # <<>>
                 THEN Store(parse_objects(section_content), "objects")
            ELSE IF section_type = ":init" /\ section_content # <<>>
                 THEN Store(ProblemFacts(parentheses_groups(section_content), 1,
                                         domain.predicates, parsed.init_facts), "init_facts")
            ELSE IF section_type = ":goal" /\ section_content # <<>>
                 THEN Store(parse_formula(section_content, FALSE, domain.predicates, <<>>, {}),
                            "goal")
            ELSE Store(Ok(parsed.objects), "objects")

\* parse_problem(problem_str, domain)
parse_problem(problem_str, domain) ==
    LET problem_content == DefineContent(problem_str, "problem")
        Build(parsed) ==
            IF ~IsOk(parsed) THEN parsed
            ELSE IF parsed.val.domain_name = None THEN Raise("ValueError")
            ELSE IF parsed.val.goal = None THEN Raise("ValueError")
            ELSE PDDLProblem(problem_str[5], parsed.val.domain_name[1],
                             Range(parsed.val.objects), parsed.val.init_facts, parsed.val.goal)
    IN IF ~IsOk(problem_content) THEN problem_content
       ELSE Build(ProblemSections(parentheses_groups(problem_content.val), 1, domain,
                                  [domain_name |-> None, objects |-> <<>>, init_facts |-> {},
                                   goal |-> None]))


-----------------------------------------------------------------------------
(* Writing and reading domains and problems: the calls and their texts.    *)

\* the domains written out
Domains ==
    {PDDLDomain("d", types, predicates, operators).val :
        types \in {{}, {block}, {block, cube}, {block, cube, robot}},
        predicates \in SUBSET {clear, on, handempty},
        operators \in {{}, {clear_to_dirty}, {clear_to_dirty, move}, {cover}}}

\* sections of domain texts written by hand
DomainSectionTexts ==
    {<<"(", ":requirements", ":strips", ")">>,
     <<"(", ":types", "block", "cube", "-", "block", ")">>,
     <<"(", ":types", "cube", "-", "object", ")">>,
     <<"(", ":types", ")">>,
     <<"(", ":predicates", ")">>,
     <<"(", ":predicates", "(", "clear", "?b", "-", "block", ")", ")">>,
     <<"(", ":constants", "a", "-", "block", ")">>,
     <<"(", ":functions", ")">>,
     <<"(", "types", "block", ")">>,
     <<"(", ":types", "block">>,
     OperatorTokens(clear_to_dirty)}

\* the domain texts written by hand: up to two sections
DomainTexts ==
    {<<"(", "define", "(", what, "d", ")">> \o Concat(sections) \o <<")">> :
        what \in {"domain", "problem"},
        sections \in UNION {[1..n -> DomainSectionTexts] : n \in 0..2}}

\* the domain the problems are read against
blocks_domain == PDDLDomain("blocks", {block, cube}, {clear, on, handempty}, {}).val

\* the :init facts and :goal formulas of the problem texts
FactTexts ==
    {<<"(", "clear", "a", ")">>, <<"(", "on", "a", "b", ")">>, <<"(", "handempty", ")">>,
     <<"(", "clear", "?b", ")">>, <<"(", "clear", ")">>, <<"(", "clear", "a", "b", ")">>,
     <<"(", "holding", "a", ")">>, <<"(", "not", "(", "clear", "a", ")", ")">>}
GoalTexts ==
    FactTexts \cup
    {<<"(", "and", "(", "clear", "a", ")", "(", "on", "a", "b", ")", ")">>,
     <<"(", "and", ")">>,
     <<"(", "or", "(", "clear", "a", ")", "(", "clear", "b", ")", ")">>,
     <<"(", "forall", "(", "?x", "-", "block", ")", "(", "clear", "?x", ")", ")">>,
     <<"clear", "a">>}

\* a problem text: the :domain and :goal sections present or not, the
\* :objects and :init sections always
ProblemText(has_domain, objects, facts, goal) ==
    <<"(", "define", "(", "problem", "p", ")">>
        \o (IF has_domain THEN <<"(", ":domain", "blocks", ")">> ELSE <<>>)
        \o <<"(", ":objects">> \o objects \o <<")">>
        \o <<"(", ":init">> \o Concat(facts) \o <<")">>
        \o (IF goal = <<>> THEN <<>> ELSE <<"(", ":goal">> \o goal[1] \o <<")">>)
        \o <<")">>

\* the :objects sections of the problem texts
ObjectTexts == {<<>>, <<"a", "b", "-", "block">>, <<"a", "-", "block", "c", "-", "cube">>}

\* the problem texts: up to two facts
ProblemTexts ==
    {ProblemText(has_domain, objects, facts, goal) :
        has_domain \in BOOLEAN, objects \in ObjectTexts,
        facts \in UNION {[1..n -> FactTexts] : n \in 0..2},
        goal \in {<<>>} \cup {<<g>> : g \in GoalTexts}}

\* domain.to_string()
ToStringCall ==
    /\ call = "none"
    /\ \E domain \in Domains :
        /\ args' = [domain |-> domain]
        /\ \E domain_str \in to_string(domain) : ret' = Ok(domain_str)
    /\ call' = "to_string"
    /\ UNCHANGED <<state, new_state, effect_todo>>

\* parse_domain(domain_str), of a text written by hand or of the text that
\* to_string has just returned
ParseDomainCall ==
    /\ \E domain_str \in (IF call = "to_string" THEN {ret.val} ELSE DomainTexts) :
        /\ args' = [domain_str |-> domain_str,
                    written |-> IF call = "to_string" THEN <<args.domain>> ELSE <<>>]
        /\ ret' = parse_domain(domain_str)
    /\ call \in {"none", "to_string"}
    /\ call' = "parse_domain"
    /\ UNCHANGED <<state, new_state, effect_todo>>

\* parse_problem(problem_str, domain)
ParseProblemCall ==
    /\ call = "none"
    /\ \E problem_str \in ProblemTexts :
        /\ args' = [problem_str |-> problem_str, domain |-> blocks_domain]
        /\ ret' = parse_problem(problem_str, blocks_domain)
    /\ call' = "parse_problem"
    /\ UNCHANGED <<state, new_state, effect_todo>>

-----------------------------------------------------------------------------
(* Plans (sas_structs.py, sas_parser.py) and Planner.plan_from_pddl        *)
(* (planning/planner.py).                                                  *)

\* the longest plan a planner run puts out
MaxPlan == 2

\* str.lower() of the names that occur
lower(name) ==
    CASE name = "Clear-To-Dirty" -> "clear-to-dirty"
      [] name = "Move" -> "move"
      [] OTHER -> name

\* SasAction(name, args): __post_init__ stores the name in lower case
SasAction(name, arguments) == [name |-> lower(name), args |-> arguments]

\* parse_sas_action(sas_action_str); the lines read hold no parenthesis
\* within their outer pair
parse_sas_action(sas_action_str) ==
    LET closing == ClosingFrom(sas_action_str, 2, 0)
    IN IF Len(sas_action_str) >= 3 /\ sas_action_str[1] = "(" /\ IsName(sas_action_str[2])
          /\ closing > 0
       THEN Ok(SasAction(sas_action_str[2], SubSeq(sas_action_str, 3, closing - 1)))
       ELSE Raise("AssertionError")

\* parse_sas_plan(sas_plan_str), the text given by its lines
parse_sas_plan(lines) ==
    LET actions == [i \in 1..Len(lines) |-> parse_sas_action(lines[i])]
    IN IF FirstError(actions) # "" THEN Raise(FirstError(actions))
       ELSE Ok([i \in 1..Len(lines) |-> actions[i].val])

\* Planner._fix_action_capitalization(plan, dom_file), the file given by
\* its text; of two operators whose names agree in lower case the dict keeps
\* either, by the order of the set
fix_action_capitalization(plan, domain_str) ==
    LET named(action, operators) ==
            {op.name : op \in {o \in operators : lower(o.name) = lower(action.name)}}
        correct_names(action, operators) ==
            IF named(action, operators) = {} THEN {action.name} ELSE named(action, operators)
        Fix(domain) ==
            IF ~IsOk(domain) THEN {domain}
            ELSE {Ok([i \in 1..Len(plan) |-> SasAction(names[i], plan[i].args)]) :
                    names \in {ns \in [1..Len(plan) ->
                                        UNION {correct_names(plan[i], domain.val.operators)
                                               : i \in 1..Len(plan)}] :
                                \A i \in 1..Len(plan) :
                                    ns[i] \in correct_names(plan[i], domain.val.operators)}}
    IN Fix(parse_domain(domain_str))

\* Planner.plan_from_pddl once the planner has run: pddl_plan_str is what
\* _output_to_plan made of its output, timed_out whether the run took longer
\* than timeout
plan_from_pddl(pddl_plan_str, domain_str, horizon, timed_out, fix_capitalization) ==
    LET pddl_plan == parse_sas_plan(pddl_plan_str)
    IN IF timed_out THEN {Raise("PlanningTimeout")}
       ELSE IF Len(pddl_plan_str) > horizon THEN {Raise("PlanningFailure")}
       ELSE IF ~IsOk(pddl_plan) THEN {pddl_plan}
       ELSE IF fix_capitalization THEN fix_action_capitalization(pddl_plan.val, domain_str)
       ELSE {pddl_plan}

\* clear-to-dirty declared with capitals
Clear_To_Dirty ==
    NewOperator("Clear-To-Dirty", <<var_b>>, clear_of(var_b), not_clear_of(var_b)).val

\* the domains whose files the planner is run on
PlannedDomains ==
    {PDDLDomain("d", {block}, predicates, operators).val :
        predicates \in {{}, {clear}}, operators \in {{}, {clear_to_dirty}, {Clear_To_Dirty, move}}}

\* the lines a planner run puts out
PlanLines ==
    {<<"(", "clear-to-dirty", "a", ")">>, <<"(", "move", "a", "b", ")">>,
     <<"(", "Move", "b", "a", ")">>, <<"(", "noop", ")">>, <<"(", ")">>}

\* planner.plan_from_pddl(dom_file, prob_file, horizon, fix_capitalization=...)
PlanFromPddlCall ==
    /\ call = "none"
    /\ \E domain \in PlannedDomains, pddl_plan_str \in UNION {[1..n -> PlanLines] : n \in 0..MaxPlan},
          horizon \in {1, MaxPlan}, timed_out \in BOOLEAN, fix_capitalization \in BOOLEAN :
        \E domain_str \in to_string(domain) :
            /\ args' = [domain |-> domain, domain_str |-> domain_str,
                        pddl_plan_str |-> pddl_plan_str, horizon |-> horizon,
                        timed_out |-> timed_out, fix_capitalization |-> fix_capitalization]
            /\ ret' \in plan_from_pddl(pddl_plan_str, domain_str, horizon, timed_out,
                                       fix_capitalization)
    /\ call' = "plan_from_pddl"
    /\ UNCHANGED <<state, new_state, effect_todo>>

-----------------------------------------------------------------------------
(* VAL.validate (validation/val.py).                                       *)

\* the lines of a plan file
PlanFileLines == {"(move a b)", "(noop)", "; cost = 2 (unit cost)", "", "  "}

\* line.strip().startswith(';') or line.strip() == ''
IsCommentOrBlank(line) == line \in {"; cost = 2 (unit cost)", "", "  "}

\* the lines validate copies to the temporary plan file
RECURSIVE TmpPlanFrom(_, _)
TmpPlanFrom(lines, i) ==
    IF i > Len(lines) THEN <<>>
    ELSE (IF IsCommentOrBlank(lines[i]) THEN <<>> ELSE <<lines[i]>>)
            \o TmpPlanFrom(lines, i + 1)

\* the texts a validator run puts out, by their lines
ValidatorOutputs ==
    {<<"Plan valid">>, <<"Plan failed to execute">>, <<"Error: bad domain">>, <<>>,
     <<"Plan failed to execute", "Failed plans:", " plan">>}

\* "Failed plans:" in output
failed_plan(output) == \E i \in 1..Len(output) : output[i] = "Failed plans:"

\* VAL.validate(dom_file, prob_file, plan_file, remove_files); prob_file and
\* plan_file hold a file or are None, run is the pair that _validate
\* returns.  The result holds the files removed besides what is returned or
\* raised.
validate(dom_file, prob_file, plan_file, remove_files, run) ==
    LET removed == IF remove_files
                   THEN {dom_file} \cup (IF prob_file # None THEN {prob_file[1]} ELSE {})
                            \cup (IF plan_file # None THEN {plan_file[1]} ELSE {})
                   ELSE {}
    IN IF plan_file # None
       THEN IF ~failed_plan(run.output) /\ ~run.success
            THEN [err |-> "AssertionError", removed |-> removed]
            ELSE [err |-> "", removed |-> removed,
                  val |-> <<run.success /\ ~failed_plan(run.output), run.output>>]
       ELSE [err |-> "", removed |-> removed, val |-> <<run.success, run.output>>]

\* validator.validate(dom_file, prob_file, plan_file, remove_files=...) with
\* the plan file's lines; tmp_plan is the temporary file _validate is given
ValidateCall ==
    /\ call = "none"
    /\ \E prob_file \in {None, <<"problem.pddl">>}, plan_file \in {None, <<"plan">>},
          lines \in UNION {[1..n -> PlanFileLines] : n \in 0..MaxPlan},
          remove_files \in BOOLEAN, success \in BOOLEAN, output \in ValidatorOutputs :
        /\ plan_file = None => lines = <<>>
        /\ args' = [dom_file |-> "domain.pddl", prob_file |-> prob_file,
                    plan_file |-> plan_file, remove_files |-> remove_files,
                    tmp_plan |-> IF plan_file = None THEN None
                                 ELSE <<TmpPlanFrom(lines, 1)>>,
                    run |-> [success |-> success, output |-> output]]
        /\ ret' = validate("domain.pddl", prob_file, plan_file, remove_files,
                           [success |-> success, output |-> output])
    /\ call' = "validate"
    /\ UNCHANGED <<state, new_state, effect_todo>>

\* the texts split into groups: they start with "(" and end with ")"
MaxTokens == 6
GroupTexts ==
    {<<"(">> \o inner \o <<")">> :
        inner \in UNION {[1..n -> {"(", ")", "clear"}] : n \in 0..(MaxTokens - 2)}}

\* list(parentheses_groups(s)): the groups yielded and the exception that
\* ended the generator, if any
ParenthesesGroupsCall ==
    /\ call = "none"
    /\ \E s \in GroupTexts :
        /\ args' = [s |-> s]
        /\ ret' = parentheses_groups(s)
    /\ call' = "parentheses_groups"
    /\ UNCHANGED <<state, new_state, effect_todo>>

\* the predicates known when an atom is read, and the atoms read: a known
\* name applied to no, one, two or more arguments
KnownPredicates == {clear, on, handempty}
AtomTexts(words) ==
    {<<"(", name>> \o arguments \o <<")">> :
        name \in {"clear", "on", "handempty", "held"},
        arguments \in UNION {[1..n -> words] : n \in 0..(MaxArity + 1)}}

\* parse_lifted_atom(lifted_atom_str, known_predicates=...) of an atom over
\* variables, or _parse_ground_atom(ground_atom_str, known_predicates=...)
\* of an atom over objects
ParseAtomCall ==
    /\ call = "none"
    /\ \/ \E lifted_atom_str \in AtomTexts({"?x", "?y"}) :
            /\ args' = [function |-> "parse_lifted_atom", text |-> lifted_atom_str,
                        known_predicates |-> KnownPredicates]
            /\ ret' = parse_lifted_atom(lifted_atom_str, KnownPredicates)
       \/ \E ground_atom_str \in AtomTexts({"a", "b"}) :
            /\ args' = [function |-> "_parse_ground_atom", text |-> ground_atom_str,
                        known_predicates |-> KnownPredicates]
            /\ ret' = _parse_ground_atom(ground_atom_str, KnownPredicates)
    /\ call' = "parse_atom"
    /\ UNCHANGED <<state, new_state, effect_todo>>

NextText ==
    \/ ToStringCall
    \/ ParseAtomCall
    \/ ParenthesesGroupsCall
    \/ ParseDomainCall
    \/ ParseProblemCall
    \/ PlanFromPddlCall
    \/ ValidateCall
    \/ Return

SpecText == InitData /\ [][NextText]_vars


-----------------------------------------------------------------------------
(* Properties of writing and reading a domain.                             *)

\* the domain with the type block, the predicate clear and the operator
\* clear-to-dirty
clear_domain == PDDLDomain("d", {block}, {clear}, {clear_to_dirty}).val

\* parse_domain has returned from reading what to_string wrote for domain
ReadBack(domain) == call = "parse_domain" /\ args.written = <<domain>>

\* C12: writing the domain with the type block, the predicate clear and the
\* operator clear-to-dirty with to_string and reading the text with
\* parse_domain succeeds, and the domain read has an operator whose canonical
\* string is that of clear-to-dirty.
C12_RoundTrip ==
    ReadBack(clear_domain) =>
        /\ IsOk(ret)
        /\ \E operator \in ret.val.operators : OperatorStr(operator) = OperatorStr(clear_to_dirty)


-----------------------------------------------------------------------------
(* Properties of reading a problem.                                        *)

\* ground facts of the predicates of blocks_domain
GroundFacts ==
    {GroundAtom(clear, <<obj_a>>).val, GroundAtom(on, <<obj_a, obj_b>>).val,
     GroundAtom(handempty, <<>>).val}

\* the goals that are an atom or a conjunction of atoms: the text and the
\* atoms it names
AtomGoals ==
    {[text |-> AtomTokens(fact), atoms |-> {fact}] : fact \in GroundFacts}
        \cup {[text |-> <<"(", "and">> \o AtomTokens(GroundAtom(clear, <<obj_a>>).val)
                            \o AtomTokens(GroundAtom(on, <<obj_a, obj_b>>).val) \o <<")">>,
               atoms |-> {GroundAtom(clear, <<obj_a>>).val, GroundAtom(on, <<obj_a, obj_b>>).val}]}

\* the value returned is a problem with the given init and the given goal
\* atoms, the goal held as one atom or as a set of atoms
ProblemWith(result, facts, goal_atoms) ==
    /\ IsOk(result)
    /\ result.val.init = facts
    /\ result.val.goal # None
    /\ \/ result.val.goal[1].kind = "GroundAtom" /\ goal_atoms = {result.val.goal[1]}
       \/ result.val.goal[1].kind \in {"set", "frozenset"}
            /\ result.val.goal[1].atoms = goal_atoms

\* C13: parse_problem on a text with a :domain section, an :objects section,
\* an :init section of n ground facts of declared predicates and a :goal that
\* is an atom or a conjunction of atoms returns a problem whose init is the
\* set of those facts and whose goal is the goal read.
C13_ParseProblem ==
    call = "parse_problem" =>
        \A objects \in ObjectTexts, goal \in AtomGoals,
           facts \in UNION {[1..n -> GroundFacts] : n \in 0..2} :
            args.problem_str
                = ProblemText(TRUE, objects, [i \in 1..Len(facts) |-> AtomTokens(facts[i])],
                              <<goal.text>>)
            => ProblemWith(ret, Range(facts), goal.atoms)


-----------------------------------------------------------------------------
(* Properties of Type.                                                     *)

\* C14: two types are equal exactly if they have the same name and the same
\* list of feature names, whatever their parents are, and equal types hash
\* equally.
C14_TypeEqualityByName ==
    call = "Type.__eq__" =>
        LET same == args.left.name = args.right.name
                    /\ args.left.feature_names = args.right.feature_names
        IN /\ ret.val.eq <=> same
           /\ same => ret.val.hash_eq


\* the parent chain of a type, the type itself first, and its depth
RECURSIVE Chain(_)
Chain(t) == <<t>> \o (IF t.parent = None THEN <<>> ELSE Chain(t.parent[1]))
depth(t) == Len(Chain(t)) - 1

-----------------------------------------------------------------------------
(* Properties of Planner.plan_from_pddl.                                   *)

\* plan_from_pddl was called with fix_capitalization and did not end on the
\* timeout, the horizon or a line that is no action
FixedPlan ==
    /\ call = "plan_from_pddl"
    /\ args.fix_capitalization /\ ~args.timed_out
    /\ Len(args.pddl_plan_str) <= args.horizon
    /\ IsOk(parse_sas_plan(args.pddl_plan_str))

\* C16: with fix_capitalization, plan_from_pddl returns the plan, and every
\* action of it whose name is that of an operator of the domain up to case
\* carries the name as the operator declares it; the other actions keep
\* their names and all argument lists are those of the planner's plan.
C16_FixCapitalization ==
    FixedPlan =>
        LET plan == parse_sas_plan(args.pddl_plan_str).val
        IN /\ IsOk(ret)
           /\ Len(ret.val) = Len(plan)
           /\ \A i \in 1..Len(plan) :
                /\ ret.val[i].args = plan[i].args
                /\ \A op \in args.domain.operators :
                        lower(op.name) = lower(plan[i].name) => ret.val[i].name = op.name
                /\ (\A op \in args.domain.operators : lower(op.name) # lower(plan[i].name))
                        => ret.val[i].name = plan[i].name


-----------------------------------------------------------------------------
(* Properties of VAL.validate.                                             *)

\* C17: validate called with a plan file returns a pair for every outcome
\* of the validator run: its first part is true exactly when the run
\* reported success and its text does not hold "Failed plans:", its second
\* part is the text of the run.
C17_ValidateReturnsPair ==
    (call = "validate" /\ args.plan_file # None) =>
        /\ IsOk(ret)
        /\ ret.val[1] = (args.run.success /\ ~failed_plan(args.run.output))
        /\ ret.val[2] = args.run.output


-----------------------------------------------------------------------------
(* Properties of evaluate and ground on composite formulas.                *)

\* the only outcome of evaluating literal i of the called formula is v
ChildIs(i, v) == evaluate(args.formula.literals[i], args.sub, args.state) = {Ok(v)}

\* C18: for every disjunction whose free variables are all bound by sub,
\* evaluate returns true if and only if at least one child evaluates true;
\* the children are evaluated from left to right and none after the first
\* true one; the empty disjunction evaluates false.
C18_DisjunctionEvaluate ==
    (/\ call = "evaluate"
     /\ args.formula.kind = "LiteralDisjunction"
     /\ FreeVariables(args.formula) \subseteq DOMAIN args.sub) =>
        LET n == Len(args.formula.literals)
        IN /\ (\E i \in 1..n : ChildIs(i, TRUE) /\ \A j \in 1..(i - 1) : ChildIs(j, FALSE))
                => ret = Ok(TRUE)
           /\ (\A i \in 1..n : ChildIs(i, FALSE)) => ret = Ok(FALSE)


\* the formula is a ForAll or a When, which are effects
IsEffect(f) == f.kind \in {"ForAll", "When"}

\* the first of the literals that is an effect, 0 if there is none
FirstEffect(literals) ==
    IF \E i \in 1..Len(literals) : IsEffect(literals[i])
    THEN CHOOSE i \in 1..Len(literals) :
            IsEffect(literals[i]) /\ \A j \in 1..(i - 1) : ~IsEffect(literals[j])
    ELSE 0

\* a formula that is an effect or has one as a child was evaluated
EvaluatedEffect ==
    /\ call = "evaluate"
    /\ \/ IsEffect(args.formula)
       \/ /\ args.formula.kind \in {"LiteralConjunction", "LiteralDisjunction"}
          /\ FirstEffect(args.formula.literals) > 0
       \/ args.formula.kind = "Imply" /\ IsEffect(args.formula.consequent)
       \/ args.formula.kind = "Exists" /\ IsEffect(args.formula.body)

IsIllegalInGround(f) == f.kind \in {"Exists", "LiteralDisjunction", "EqualTo"}

\* an Exists, a disjunction or an EqualTo stands in ground position of f:
\* f itself, a child of a conjunction, the effect of a When or the body of
\* a ForAll
RECURSIVE HasIllegalInGround(_)
HasIllegalInGround(f) ==
    \/ IsIllegalInGround(f)
    \/ /\ f.kind = "LiteralConjunction"
       /\ \E i \in 1..Len(f.literals) : HasIllegalInGround(f.literals[i])
    \/ f.kind = "When" /\ HasIllegalInGround(f.effect)
    \/ f.kind = "ForAll" /\ HasIllegalInGround(f.body)

\* ground was called on a formula with an illegal formula in ground position
GroundedIllegal ==
    /\ call = "formula.ground"
    /\ HasIllegalInGround(args.formula)

-----------------------------------------------------------------------------
(* Properties of the quantifiers and of When.                              *)

\* the objects that occur in an atom of the state and whose type is exactly
\* the variable's
CandidatesIn(world, variable) ==
    {obj \in UNION {Range(atom.entities) : atom \in world} : obj.type = variable.type}

\* the tuples of the Cartesian product of the candidates of the variables
CandidateTuples(world, variables) ==
    {c \in [1..Len(variables) -> UNION {CandidatesIn(world, variables[i]) : i \in 1..Len(variables)}] :
        \A i \in 1..Len(variables) : c[i] \in CandidatesIn(world, variables[i])}

\* sub overridden with the tuple for the variables
Overridden(sub, variables, c) ==
    [v \in DOMAIN sub \cup Range(variables) |->
        IF v \in Range(variables)
        THEN c[CHOOSE i \in 1..Len(variables) : variables[i] = v]
        ELSE sub[v]]

\* a ForAll was grounded whose body grounds for every candidate tuple
GroundedForAll ==
    /\ call = "formula.ground"
    /\ args.formula.kind = "ForAll"
    /\ \A c \in CandidateTuples(args.state, args.formula.variables) :
            \A r \in ground(args.formula.body,
                            Overridden(args.sub, args.formula.variables, c), args.state) : IsOk(r)

\* C21: ForAll(vars, body).ground(sub, state) is the union of
\* body.ground(sub', state) over every tuple of the Cartesian product of
\* the candidates of the variables, sub' being sub overridden with the
\* tuple; it is the empty set when some variable has no candidate.
C21_ForAllProduct ==
    GroundedForAll =>
        LET f == args.formula
            tuples == CandidateTuples(args.state, f.variables)
            branch(c) == ground(f.body, Overridden(args.sub, f.variables, c), args.state)
        IN /\ IsOk(ret)
           /\ {AtomStr(a) : a \in ret.val}
                = UNION {UNION {{AtomStr(a) : a \in r.val} : r \in branch(c)} : c \in tuples}
           /\ Cardinality(ret.val) = Cardinality({AtomStr(a) : a \in ret.val})
           /\ (\E i \in 1..Len(f.variables) : CandidatesIn(args.state, f.variables[i]) = {})
                => ret = Ok({})

\* ForAll([?x, ?y], on(?x, ?y)) was grounded in a state with NumBlocks
\* blocks: one atom per tuple of the product
C21_Witness ==
    /\ GroundedForAll
    /\ args.formula = ForAll(<<var_x, var_y>>, on_of(var_x, var_y), FALSE)
    /\ Cardinality(CandidatesIn(args.state, var_x)) = NumBlocks
    /\ Cardinality(ret.val) = NumBlocks * NumBlocks

\* the outcomes of evaluating the condition of the When f in world
ConditionIn(f, sub, world) == evaluate(f.condition, sub, world)

\* r is what grounding the When f in world gives when its condition has
\* one outcome: the grounded effect if it is true, the empty set if false
WhenOutcome(f, sub, world, r) ==
    /\ ConditionIn(f, sub, world) = {Ok(TRUE)} => r \in ground(f.effect, sub, world)
    /\ ConditionIn(f, sub, world) = {Ok(FALSE)} => r = Ok({})

\* C22: When(condition, effect).ground(sub, state) is effect.ground(sub,
\* state) when condition.evaluate(sub, state) is true and the empty set when
\* it is false; the state of both is the one the call was given, which is
\* the caller's state before any effect is applied, also when the When is
\* the effect of an operator that is grounded
C22_WhenGround ==
    /\ call = "formula.ground" /\ args.formula.kind = "When"
            /\ AssertExposedBound(args.formula, args.sub) = ""
        => /\ args.state = state
           /\ WhenOutcome(args.formula, args.sub, state, ret)
    /\ call = "ground" /\ args.operator.effects.kind = "When" /\ IsOk(ret)
        => /\ args.state = state
           /\ WhenOutcome(args.operator.effects,
                          DictZip(args.operator.parameters, args.objects), state,
                          Ok(ret.val.effects))

\* (when (clear ?x) (not (clear ?y))) was grounded with ?x and ?y bound to
\* the same clear block: the condition holds before the effect and no
\* longer after it
C22_Witness ==
    /\ call = "formula.ground"
    /\ args.formula = When(clear_of(var_x), not_clear_of(var_y))
    /\ DOMAIN args.sub = {var_x, var_y}
    /\ args.sub[var_x] = args.sub[var_y]
    /\ ConditionIn(args.formula, args.sub, state) = {Ok(TRUE)}
    /\ IsOk(ret)
    /\ ret.val # {}

-----------------------------------------------------------------------------
(* Replaying a plan (utils/transition_utils.py 9-32).                      *)

\* action.get_objects(problem.objects): SasAction (sas_structs.py 8-58)
\* defines no get_objects, so the attribute lookup raises
get_objects(action, objects) == Raise("AttributeError")

\* PDDLDomain.get_operator_by_name: the operators the loop over the set can
\* return, none for None
get_operator_by_name(domain, name) ==
    {op \in domain.operators : lower(op.name) = lower(name)}

\* the loop of get_states from the i-th action on; pre_state is the state
\* appended last, which post_state equals when an iteration begins; the
\* effects are applied one by one in whatever order the set gives
RECURSIVE StatesFrom(_, _, _, _, _, _)
StatesFrom(domain, problem, actions, i, pre_state, action_states) ==
    IF i > Len(actions) THEN {Ok(action_states)}
    ELSE LET Apply(operator, objects) ==
                IF ~IsOk(objects) THEN {objects}
                ELSE UNION {IF ~IsOk(ground_op) THEN {ground_op}
                            ELSE UNION {StatesFrom(domain, problem, actions, i + 1,
                                                   TransitionAlong(pre_state, order, 1),
                                                   Append(action_states,
                                                          TransitionAlong(pre_state, order, 1)))
                                        : order \in Orders(ground_op.val.effects)}
                            : ground_op \in OperatorGround(operator, objects.val, pre_state)}
         IN IF get_operator_by_name(domain, actions[i].name) = {}
            THEN {Raise("AssertionError")}
            ELSE UNION {Apply(operator, get_objects(actions[i], problem.objects))
                        : operator \in get_operator_by_name(domain, actions[i].name)}

\* get_states(domain, problem, actions); actions is a SasPlan, which
\* defines no __len__, or a plain list of SasAction
get_states(domain, problem, actions) ==
    IF actions.kind = "SasPlan" THEN {Raise("TypeError")}
    ELSE IF Len(actions.actions) = 0 THEN {Ok(<<problem.init>>)}
    ELSE StatesFrom(domain, problem, actions.actions, 1, problem.init, <<problem.init>>)

\* the actions of the plans replayed
ReplayActions ==
    {SasAction("clear-to-dirty", <<"a">>), SasAction("Move", <<"a", "b">>),
     SasAction("noop", <<>>)}

\* get_states(domain, problem, actions) on the problem whose init is the
\* current state
GetStatesCall ==
    /\ call = "none"
    /\ \E domain \in PlannedDomains, kind \in {"SasPlan", "list"},
          actions \in UNION {[1..n -> ReplayActions] : n \in 0..MaxPlan} :
        /\ args' = [domain |-> domain,
                    problem |-> PDDLProblem("p", "d", Objects, state, None).val,
                    actions |-> [kind |-> kind, actions |-> actions]]
        /\ \E r \in get_states(domain, PDDLProblem("p", "d", Objects, state, None).val,
                               [kind |-> kind, actions |-> actions]) : ret' = r
    /\ call' = "get_states"
    /\ UNCHANGED <<state, new_state, effect_todo>>

NextReplay ==
    \/ GetStatesCall
    \/ TransitionCall
    \/ TransitionIter
    \/ TransitionReturn
    \/ Return

SpecReplay == Init /\ [][NextReplay]_vars

-----------------------------------------------------------------------------
(* Properties of get_states.                                               *)

\* the objects of the problem an action names, in the order of its arguments
ActionObjects(action, objects) ==
    [i \in 1..Len(action.args) |-> CHOOSE o \in objects : o.name = action.args[i]]

\* next is transition(current, effects of the action's operator grounded
\* with the action's objects against current)
IsSuccessor(domain, problem, action, current, next) ==
    \E operator \in get_operator_by_name(domain, action.name) :
        \E ground_op \in OperatorGround(operator, ActionObjects(action, problem.objects), current) :
            /\ IsOk(ground_op)
            /\ \E order \in Orders(ground_op.val.effects) :
                next = TransitionAlong(current, order, 1)

\* get_states was called with a plan whose actions all name an operator of
\* the domain and objects of the problem that fit its parameters
ReplayedKnownPlan ==
    /\ call = "get_states"
    /\ \A i \in 1..Len(args.actions.actions) :
        LET action == args.actions.actions[i]
        IN /\ \A j \in 1..Len(action.args) : \E o \in args.problem.objects : o.name = action.args[j]
           /\ \E operator \in get_operator_by_name(args.domain, action.name) :
                Len(operator.parameters) = Len(action.args)

\* C27: get_states(domain, problem, plan) returns len(plan)+1 states, the
\* first is problem.init and each next one is the transition of the one
\* before it by the effects of the action's grounded operator.
C27_StatesOfPlan ==
    ReplayedKnownPlan =>
        /\ IsOk(ret)
        /\ Len(ret.val) = Len(args.actions.actions) + 1
        /\ ret.val[1] = args.problem.init
        /\ \A i \in 1..Len(args.actions.actions) :
            IsSuccessor(args.domain, args.problem, args.actions.actions[i],
                        ret.val[i], ret.val[i + 1])

\* the preconditions of the first action's operator do not hold in
\* problem.init
FirstActionInapplicable ==
    /\ ReplayedKnownPlan
    /\ Len(args.actions.actions) > 0
    /\ \E operator \in get_operator_by_name(args.domain, args.actions.actions[1].name) :
        \E ground_op \in OperatorGround(operator,
                                        ActionObjects(args.actions.actions[1], args.problem.objects),
                                        args.problem.init) :
            IsOk(ground_op) /\ ~ground_op.val.preconditions

\* C29: get_states replays a plan without checking it: an action whose
\* operator's preconditions do not hold in the pre-state still gets its
\* effects applied and its successor state appended, and nothing is raised.
C29_ReplaysInapplicable ==
    FirstActionInapplicable =>
        /\ IsOk(ret)
        /\ Len(ret.val) = Len(args.actions.actions) + 1

-----------------------------------------------------------------------------
(* Consistency of the states transition produces.                          *)

\* C28: no state reached by any sequence of transition calls, whatever the
\* effect sets, holds a ground atom together with its negated twin: neither
\* the state the caller holds, nor the set the loop is building, nor the
\* set that is returned.
C28_Consistent ==
    /\ ~Contradictory(state)
    /\ ~Contradictory(new_state)
    /\ TransitionReturned => ~Contradictory(ret.val)

\* transition returned for an effect that holds an atom with its negated
\* twin, applied to a state that earlier transitions put a negated atom into
C28_Witness ==
    /\ TransitionReturned
    /\ Contradictory(args.effect)
    /\ \E s \in args.curr_state : s.predicate.is_negated
    /\ \E e \in args.effect, s \in args.curr_state : IsTwin(e, s)

-----------------------------------------------------------------------------
(* Properties of Exists.evaluate.                                          *)

\* the outcomes of the body of the Exists f under sub overridden with c
BodyUnder(f, sub, world, c) == evaluate(f.body, Overridden(sub, f.variables, c), world)

\* an Exists was evaluated whose body evaluates for every candidate tuple
ExistsEvaluated ==
    /\ call = "evaluate"
    /\ args.formula.kind = "Exists"
    /\ \A c \in CandidateTuples(args.state, args.formula.variables) :
            \A r \in BodyUnder(args.formula, args.sub, args.state, c) : IsOk(r)

-----------------------------------------------------------------------------
(* Not of a conjunction or a disjunction.                                  *)

\* Not was applied to a connective, and the negation of every child exists
NegatedConnective ==
    /\ call = "Not"
    /\ ~IsPredicate(args.x)
    /\ args.x.kind \in {"LiteralConjunction", "LiteralDisjunction"}
    /\ \A i \in 1..Len(args.x.literals) : IsOk(Not(args.x.literals[i]))

\* the negations of the children of x, in the order of the children
NegatedChildren(x) == [i \in 1..Len(x.literals) |-> Not(x.literals[i]).val]

-----------------------------------------------------------------------------
(* Reading an application of a known predicate.                            *)

\* an atom was read whose predicate name is known and whose number of
\* arguments is not the arity of the known predicate
ReadWrongArity ==
    /\ call = "parse_atom"
    /\ KnownByName(args.known_predicates, args.text[2]) # None
    /\ Len(args.text) - 3 # arity(KnownByName(args.known_predicates, args.text[2])[1])

\* C25: when a predicate of the name is known, reading an application of it
\* with fewer or with more arguments than its arity raises; no atom is
\* returned for it.
C25_ArityChecked == ReadWrongArity => ~IsOk(ret)

-----------------------------------------------------------------------------
(* Properties of parentheses_groups.                                       *)

\* the opening minus the closing parentheses of s[a..i]
Depth(s, a, i) ==
    Cardinality({j \in a..i : s[j] = "("}) - Cardinality({j \in a..i : s[j] = ")"})

\* s[a..b] is a top-level balanced group: it opens at a and b is the first
\* position where the parentheses since a are balanced
IsGroup(s, a, b) ==
    /\ s[a] = "("
    /\ Depth(s, a, b) = 0
    /\ \A i \in a..(b - 1) : Depth(s, a, i) > 0

\* the position in s where the i-th group of groups begins
StartOf(groups, i) == 1 + Len(Concat(SubSeq(groups, 1, i - 1)))

\* C26: for a text that starts with "(" and ends with ")", parentheses_groups
\* ends and yields, left to right, the top-level balanced groups of the
\* text; if it ends without an exception the groups together are the text;
\* it raises ValueError exactly when, after the groups yielded, the rest of
\* the text does not begin with "(" or begins a group that is never closed.
C26_Groups ==
    call = "parentheses_groups" =>
        LET s == args.s
            groups == ret.groups
            rest == SubSeq(s, 1 + Len(Concat(groups)), Len(s))
        IN /\ \A i \in 1..Len(groups) :
                /\ groups[i] = SubSeq(s, StartOf(groups, i), StartOf(groups, i + 1) - 1)
                /\ IsGroup(s, StartOf(groups, i), StartOf(groups, i + 1) - 1)
           /\ ret.err \in {"", "ValueError"}
           /\ ret.err = "" <=> rest = <<>>
           /\ ret.err = "ValueError" <=>
                /\ rest # <<>>
                /\ \/ rest[1] # "("
                   \/ \A b \in 1..Len(rest) : ~IsGroup(rest, 1, b)

\* a text of two groups, the second with a nested pair, was split
C26_Witness ==
    /\ call = "parentheses_groups"
    /\ ret.err = ""
    /\ Len(ret.groups) = 2
    /\ ret.groups[2] = <<"(", "(", ")", ")">>

-----------------------------------------------------------------------------
(* The PDDL text of a negated atom.                                        *)

\* Not was applied to an atom of a positive predicate
NegatedPositiveAtom ==
    /\ call = "Not"
    /\ ~IsPredicate(args.x)
    /\ IsAtom(args.x)
    /\ ~args.x.predicate.is_negated
    /\ IsOk(ret)

\* C30: for an atom of any arity, also arity 0, the PDDL text of the atom
\* with the negated predicate is "(not R)" where R is the PDDL text of the
\* atom with the positive predicate, so the two texts are never the same.
C30_NegatedRendering ==
    NegatedPositiveAtom =>
        /\ AtomPddlStr(ret.val) = "(not " \o AtomPddlStr(args.x) \o ")"
        /\ AtomPddlStr(ret.val) # AtomPddlStr(args.x)
        /\ AtomTokens(ret.val) = <<"(", "not">> \o AtomTokens(args.x) \o <<")">>

====
